---- MODULE Spec2Model ----
(***************************************************************************)
(* Model of the lysergic tokenizer processor (src/src/processor.rs) with   *)
(* the helpers of src/src/lib.rs and the state of src/src/state.rs.        *)
(*                                                                         *)
(* One instruction is one action: the handler runs to completion and the   *)
(* host commits its effects only when it returns Ok; on any error the      *)
(* accounts keep their pre-call value.                                     *)
(*                                                                         *)
(* The token, associated-token-account and system programs are outside the *)
(* repository.  They are modelled as far as the processor relies on them:  *)
(* they move balances and lamports between the accounts they are called    *)
(* with, refuse a transfer or burn that exceeds the balance, refuse to     *)
(* close a token account that still holds tokens, and require the          *)
(* signature of a wallet authority.  A call made through invoke_signed     *)
(* carries the signature of the address that its signer seeds derive under *)
(* this program's id, and of no other address that the transaction has not *)
(* signed; seeds that derive no address fail the call.  Balances are       *)
(* kept per token account; the mint of a token account is not followed.    *)
(* initialize_mint records the authority of a mint and refuses a mint      *)
(* initialized before.                                                     *)
(*                                                                         *)
(* The two calls that bring a position into being are taken more leniently *)
(* than the programs called take them.  The system program creates the     *)
(* position account for a funding account that signed, without asking the  *)
(* signature of the new account, which the plain invoke of the handler     *)
(* cannot give for a derived address; the associated-token-account program *)
(* creates the token account at the address the handler names as the       *)
(* account, where the instruction the handler builds names that address    *)
(* as the wallet.  With either requirement no position would ever be       *)
(* initialized and no handler could be examined beyond its first check;    *)
(* the model therefore has every behaviour of the program and, in          *)
(* addition, the behaviours on a position initialized this way.            *)
(***************************************************************************)
EXTENDS Integers, Sequences, FiniteSets, TLC

\* ------------------------------------------------------------------------
\* Bounds of the model
\* ------------------------------------------------------------------------
\* largest amount an instruction carries
MaxAmount == 1
\* underlying tokens each user holds at the start
InitialUnderlying == 1
\* largest supply of the principal and of the yield token the model follows
MaxSupply == 2
\* lamports each user holds at the start
InitialLamports == 6
\* lamports the rent sysvar asks for an account (rent.minimum_balance(size).max(1))
RentMinimum == 1

\* ------------------------------------------------------------------------
\* Keys.  A public key is a sequence of naturals.  A wallet or program key
\* has one element; a program derived address is the length-prefixed
\* concatenation of the program id and the seeds, the bump among them, so
\* that different (seeds, program id) give different addresses.
\* ------------------------------------------------------------------------
PROGRAM_ID == <<1>>
SPL_TOKEN_ID == <<2>>
ATA_PROGRAM_ID == <<4>>
\* Pubkey::default(), the 32 zero bytes
ZERO_KEY == <<0>>
\* system_program::id(), 11111111111111111111111111111111: the 32 zero bytes
SYSTEM_PROGRAM_ID == ZERO_KEY
USER_A == <<10>>
USER_B == <<11>>
UNDERLYING_MINT == <<20>>
Users == {USER_A, USER_B}
\* the users that initialize a position
Authorities == {USER_A}
\* the users that hold underlying tokens at the start
Holders == {USER_A}

SEED_PRINCIPAL == <<201>>
SEED_YIELD == <<202>>
SEED_LYSERGIC_TOKENIZER == <<203>>
SEED_TOKENIZER == <<204>>

RECURSIVE ConcatSeeds(_)
ConcatSeeds(seeds) ==
    IF seeds = <<>> THEN <<>>
    ELSE <<Len(Head(seeds))>> \o Head(seeds) \o ConcatSeeds(Tail(seeds))

\* The last seeds b for which the hash of (b"lysergic-tokenizer", [b]) and
\* the id of this program is a point of the curve
ON_CURVE_BUMPS ==
    {0, 1, 5, 6, 8, 13, 14, 17, 21, 23, 29, 32, 33, 35, 36, 37, 38, 39, 43,
     44, 48, 49, 50, 51, 52, 54, 56, 61, 62, 63, 65, 66, 72, 79, 80, 81,
     82, 84, 87, 88, 90, 91, 94, 96, 97, 100, 102, 103, 104, 106, 107, 109,
     110, 111, 112, 115, 116, 117, 120, 121, 122, 123, 124, 125, 126, 128,
     129, 132, 133, 134, 135, 136, 138, 145, 150, 151, 153, 157, 159, 161,
     162, 163, 167, 168, 171, 172, 173, 179, 180, 184, 188, 189, 192, 193,
     194, 197, 198, 199, 200, 201, 202, 203, 208, 210, 214, 215, 217, 219,
     220, 221, 223, 224, 227, 229, 231, 232, 234, 235, 237, 240, 241, 243,
     246, 247, 248, 251, 253, 254, 255}

\* the hash of the seeds and the program id is a point of the curve.  That
\* is so for the seeds the processor signs with, under the id of this
\* program; the hash of any other seeds of the model is taken off the curve
OnCurve(seeds, program_id) ==
    /\ program_id = PROGRAM_ID
    /\ Len(seeds) = 2
    /\ seeds[1] = SEED_LYSERGIC_TOKENIZER
    /\ seeds[2] \in {<<bump>> : bump \in ON_CURVE_BUMPS}

\* Pubkey::create_program_address(seeds, program_id): the address that the
\* hash of every seed and of the program id gives, and InvalidSeeds when
\* the hash is a point of the curve
create_program_address(seeds, program_id) ==
    IF OnCurve(seeds, program_id) THEN [err |-> "InvalidSeeds"]
    ELSE [err |-> "Ok",
          key |-> <<Len(program_id)>> \o program_id \o ConcatSeeds(seeds)]

\* the bump of find_program_address: the first one from bump downward with
\* which the seeds derive an address
RECURSIVE find_bump(_, _, _)
find_bump(seeds, program_id, bump) ==
    IF create_program_address(Append(seeds, <<bump>>), program_id).err = "Ok"
    THEN bump
    ELSE find_bump(seeds, program_id, bump - 1)

\* Pubkey::find_program_address(seeds, program_id): the address of the
\* seeds followed by the bump found from 255 downward
find_program_address(seeds, program_id) ==
    create_program_address(Append(seeds, <<find_bump(seeds, program_id, 255)>>),
                           program_id).key

to_le_bytes(n) == <<n>>

\* variant of get_tokenizer_address: one address for each underlying mint,
\* whatever the expiry date and the program id given
get_tokenizer_address_of_mint(program_id, underlying_mint, expiry_date) ==
    find_program_address(<<underlying_mint>>, PROGRAM_ID)

get_tokenizer_address(program_id, underlying_mint, expiry_date) ==
    find_program_address(<<underlying_mint, to_le_bytes(expiry_date)>>, program_id)

get_principal_mint_address(program_id, tokenizer_address) ==
    find_program_address(<<tokenizer_address, SEED_PRINCIPAL>>, program_id)

get_yield_mint_address(program_id, tokenizer_address) ==
    find_program_address(<<tokenizer_address, SEED_YIELD>>, program_id)

get_associated_token_address(wallet, mint) ==
    find_program_address(<<wallet, SPL_TOKEN_ID, mint>>, ATA_PROGRAM_ID)

\* The derivations of src/program/src/lib.rs, which the client (cli) imports:
\* the seed of the name comes first and the program id is crate::id().
client_get_tokenizer_address(underlying_mint, expiry_date) ==
    find_program_address(<<SEED_TOKENIZER, underlying_mint, to_le_bytes(expiry_date)>>,
                         PROGRAM_ID)

client_get_principal_mint_address(tokenizer_address) ==
    find_program_address(<<SEED_PRINCIPAL, tokenizer_address>>, PROGRAM_ID)

client_get_yield_mint_address(tokenizer_address) ==
    find_program_address(<<SEED_YIELD, tokenizer_address>>, PROGRAM_ID)

\* ------------------------------------------------------------------------
\* Expiry
\* ------------------------------------------------------------------------
Terms == {"TwelveMonths", "EighteenMonths", "TwentyFourMonths"}
\* the terms of the positions the model initializes
InitTerms == {"TwelveMonths"}
SECONDS_PER_DAY == 86400

to_seconds(expiry) ==
    CASE expiry = "TwelveMonths" -> 31536000
      [] expiry = "EighteenMonths" -> 47304000
      [] expiry = "TwentyFourMonths" -> 63072000

\* Utc::now() + Duration, then the date at 00:00:00 (floor to the day).
\* now is the wall clock in seconds since the epoch; Utc::now() panics on a
\* wall clock before the epoch, and no value is returned
to_expiry_date(expiry, now) ==
    CASE now >= 0 ->
        ((now + to_seconds(expiry)) \div SECONDS_PER_DAY) * SECONDS_PER_DAY

\* i64 division of Rust: the quotient truncated toward zero
TruncDiv(a, b) == IF a >= 0 THEN a \div b ELSE 0 - ((0 - a) \div b)

\* to_expiry_date(&self, ts) of src/program/src/lib.rs
to_expiry_date_ts(expiry, ts) ==
    LET expiry_seconds == to_seconds(expiry)
        expiry_timestamp == ts + expiry_seconds
        days == TruncDiv(expiry_timestamp, 24 * 60 * 60)
    IN  days * 24 * 60 * 60

\* variant of from_i64: any other integer taken as twelve months
from_i64_default(expiry) ==
    CASE expiry = 18 -> "EighteenMonths"
      [] expiry = 24 -> "TwentyFourMonths"
      [] OTHER -> "TwelveMonths"

from_i64(expiry) ==
    CASE expiry = 12 -> "TwelveMonths"
      [] expiry = 18 -> "EighteenMonths"
      [] expiry = 24 -> "TwentyFourMonths"
      [] OTHER -> "InvalidArgument"

\* ------------------------------------------------------------------------
\* State of the tokenizer account
\* ------------------------------------------------------------------------
LYSERGIC_TOKENIZER_STATE_SIZE == 1 + 32 + 32 + 32 + 32 + 32 + 8 + 8

LysergicTokenizerState(pt, yt, um, uv, ed, apy) ==
    [bump |-> 0, authority |-> ZERO_KEY,
     principal_token_mint |-> pt, yield_token_mint |-> yt,
     underlying_mint |-> um, underlying_vault |-> uv,
     expiry_date |-> ed, fixed_apy |-> apy]

\* ------------------------------------------------------------------------
\* The bank: every account the instructions touch.
\*   owner    key -> owning program   (absent: the system program)
\*   lamports key -> lamports         (absent: 0)
\*   data     key -> tokenizer state  (absent: no data, length 0)
\*   amount   key -> token balance of a token account (absent: 0)
\*   supply   key -> supply of a mint (absent: 0)
\*   closed   the accounts closed by close_account
\*   mint_authority  key -> mint authority of an initialized mint
\* ------------------------------------------------------------------------
Get(f, k, default) == IF k \in DOMAIN f THEN f[k] ELSE default

Put(f, k, v, default) ==
    IF v = default
    THEN [x \in DOMAIN f \ {k} |-> f[x]]
    ELSE [x \in DOMAIN f \cup {k} |-> IF x = k THEN v ELSE f[x]]

Assign(f, k, v) == [x \in DOMAIN f \cup {k} |-> IF x = k THEN v ELSE f[x]]
Remove(f, k) == [x \in DOMAIN f \ {k} |-> f[x]]

Owner(b, k) == Get(b.owner, k, SYSTEM_PROGRAM_ID)
Lamports(b, k) == Get(b.lamports, k, 0)
Amount(b, k) == Get(b.amount, k, 0)
Supply(b, k) == Get(b.supply, k, 0)
DataLen(b, k) == IF k \in DOMAIN b.data THEN LYSERGIC_TOKENIZER_STATE_SIZE ELSE 0

Ok(b) == [err |-> "Ok", bank |-> b]
Err(e, b) == [err |-> e, bank |-> b]

\* account infos of an instruction: the key and the signer flag of the
\* transaction; owner, lamports and data are read from the bank
Acc(k, s) == [key |-> k, is_signer |-> s]

\* ------------------------------------------------------------------------
\* System program, token program and associated-token-account program, as
\* the processor calls them
\* ------------------------------------------------------------------------
ZeroState == LysergicTokenizerState(ZERO_KEY, ZERO_KEY, ZERO_KEY, ZERO_KEY, 0, 0)

MoveLamports(b, from, to, n) ==
    LET l1 == Put(b.lamports, from, Lamports(b, from) - n, 0)
        l2 == Put(l1, to, Get(l1, to, 0) + n, 0)
    IN  [b EXCEPT !.lamports = l2]

\* system_instruction::create_account(from, to, lamports, space, owner): the
\* signature of the funding account is required, that of the new account is
\* not asked for
create_account(b, from, from_signed, to, lamports, owner) ==
    IF ~from_signed THEN Err("MissingRequiredSignature", b)
    ELSE IF Owner(b, to) # SYSTEM_PROGRAM_ID \/ DataLen(b, to) # 0
    THEN Err("AccountAlreadyInUse", b)
    ELSE IF Lamports(b, from) < lamports THEN Err("InsufficientLamports", b)
    ELSE LET b1 == MoveLamports(b, from, to, lamports)
         IN  Ok([b1 EXCEPT !.owner = Put(b1.owner, to, owner, SYSTEM_PROGRAM_ID),
                           !.data = IF owner = PROGRAM_ID
                                    THEN Assign(b1.data, to, ZeroState)
                                    ELSE b1.data])

\* system_instruction::transfer(from, to, lamports)
system_transfer(b, from, to, lamports) ==
    IF Lamports(b, from) < lamports THEN Err("InsufficientLamports", b)
    ELSE Ok(MoveLamports(b, from, to, lamports))

\* create_associated_token_account: a token account at account_addr, rent
\* paid by the funding account; the address is taken as the handler hands it
\* in, not derived from the wallet and the mint of the instruction
create_associated_token_account(b, funding, funding_signed, account_addr) ==
    IF ~funding_signed THEN Err("MissingRequiredSignature", b)
    ELSE IF Owner(b, account_addr) # SYSTEM_PROGRAM_ID THEN Err("AccountAlreadyInUse", b)
    ELSE IF Lamports(b, funding) < RentMinimum THEN Err("InsufficientLamports", b)
    ELSE LET b1 == MoveLamports(b, funding, account_addr, RentMinimum)
         IN  Ok([b1 EXCEPT !.owner = Put(b1.owner, account_addr, SPL_TOKEN_ID,
                                         SYSTEM_PROGRAM_ID)])

\* variant of token_transfer: the source is debited and the destination is
\* not credited
token_transfer_no_credit(b, source, destination, authority_signed, amount) ==
    IF ~authority_signed THEN Err("MissingRequiredSignature", b)
    ELSE IF Amount(b, source) < amount THEN Err("InsufficientFunds", b)
    ELSE Ok([b EXCEPT !.amount = Put(b.amount, source, Amount(b, source) - amount, 0)])

\* spl_token::instruction::transfer(source, destination, authority, amount)
token_transfer(b, source, destination, authority_signed, amount) ==
    IF ~authority_signed THEN Err("MissingRequiredSignature", b)
    ELSE IF Amount(b, source) < amount THEN Err("InsufficientFunds", b)
    ELSE LET a1 == Put(b.amount, source, Amount(b, source) - amount, 0)
             a2 == Put(a1, destination, Get(a1, destination, 0) + amount, 0)
         IN  Ok([b EXCEPT !.amount = a2])

\* spl_token::instruction::initialize_mint(mint, mint_authority, None, 6)
initialize_mint(b, mint, mint_authority) ==
    IF mint \in DOMAIN b.mint_authority THEN Err("AlreadyInUse", b)
    ELSE Ok([b EXCEPT !.mint_authority = Assign(@, mint, mint_authority)])

\* spl_token::instruction::mint_to(mint, account, owner, amount)
mint_to(b, mint, account, amount) ==
    Ok([b EXCEPT !.supply = Put(b.supply, mint, Supply(b, mint) + amount, 0),
                 !.amount = Put(b.amount, account, Amount(b, account) + amount, 0)])

\* spl_token::instruction::burn(account, mint, authority, amount)
burn(b, account, mint, authority_signed, amount) ==
    IF ~authority_signed THEN Err("MissingRequiredSignature", b)
    ELSE IF Amount(b, account) < amount THEN Err("InsufficientFunds", b)
    ELSE IF Supply(b, mint) < amount THEN Err("Overflow", b)
    ELSE Ok([b EXCEPT !.supply = Put(b.supply, mint, Supply(b, mint) - amount, 0),
                      !.amount = Put(b.amount, account, Amount(b, account) - amount, 0)])

\* spl_token::check_program_account, the first step of the builder
\* spl_token::instruction::close_account(token_program_id, ..)?: a token
\* program other than spl_token::id() is refused before the call is made
check_program_account(b, spl_token_program_id) ==
    IF spl_token_program_id # SPL_TOKEN_ID THEN Err("IncorrectProgramId", b)
    ELSE Ok(b)

\* the instruction close_account(account, destination, owner) in the token
\* program
close_account(b, account, destination) ==
    IF Amount(b, account) # 0 THEN Err("NonNativeHasBalance", b)
    ELSE LET b1 == MoveLamports(b, account, destination, Lamports(b, account))
         IN  Ok([b1 EXCEPT !.owner = Put(b1.owner, account, SYSTEM_PROGRAM_ID,
                                         SYSTEM_PROGRAM_ID),
                           !.closed = @ \cup {account}])

\* invoke_signed(instruction, accounts, signers_seeds) on the accounts b:
\* the call r of an instruction that requires the signature of the account
\* signer, made with the seeds given.  borrowed are the writable accounts of the
\* instruction whose lamports or data the caller holds a Ref of while it
\* calls: invoke_signed cannot borrow them and refuses.  The seeds then
\* derive the signer of the call under the id of this program: the call
\* fails when they derive no address, and the called program is not
\* reached when the account is neither the address derived nor a signer of
\* the transaction.
invoke_signed(b, r, borrowed, signers_seeds, signer) ==
    IF borrowed # {} THEN Err("AccountBorrowFailed", b)
    ELSE LET derived == create_program_address(signers_seeds, PROGRAM_ID)
         IN  IF derived.err # "Ok" THEN Err(derived.err, b)
             ELSE IF derived.key # signer.key /\ ~signer.is_signer
             THEN Err("PrivilegeEscalation", b)
             ELSE r

\* The `?` after an invoke (as in processor.rs, `invoke(..)?; invoke_signed(..)?;`):
\* the next call runs on the accounts the previous one left, unless the
\* previous one returned an error, which is then the result
AndThen(r, F(_)) == IF r.err = "Ok" THEN F(r.bank) ELSE r

\* variant of Rollback: the accounts stay as the failed instruction left them
Rollback_partial(b, r) == r

\* an instruction that returns an error leaves the accounts as they were
Rollback(b, r) == IF r.err = "Ok" THEN r ELSE Err(r.err, b)

\* &[&b"lysergic-tokenizer"[..], &[0u8]]
SignerSeeds == <<SEED_LYSERGIC_TOKENIZER, <<0>>>>

\* ------------------------------------------------------------------------
\* The processor
\* ------------------------------------------------------------------------
\* "Check to see if the expiry date has elapsed", the gate of the tokenize
\* handlers: lysergic_tokenizer_state.expiry_date < unix_timestamp
expiry_date_elapsed(lysergic_tokenizer_state, now) ==
    lysergic_tokenizer_state.expiry_date < now

\* variant of expiry_date_not_elapsed: the gate opens one second early
expiry_date_not_elapsed_early(lysergic_tokenizer_state, now) ==
    lysergic_tokenizer_state.expiry_date > now + 1

\* the gate of the redeem and terminate handlers:
\* lysergic_tokenizer_state.expiry_date >= unix_timestamp
expiry_date_not_elapsed(lysergic_tokenizer_state, now) ==
    lysergic_tokenizer_state.expiry_date >= now

\* variant of tokenizer_account_owned: the account is never found owned
tokenizer_account_owned_never(b, lysergic_tokenizer_account) == FALSE

\* "Check if the lysergic tokenizer account is already initialized":
\* lysergic_tokenizer_account.owner == &crate::id()
tokenizer_account_owned(b, lysergic_tokenizer_account) ==
    Owner(b, lysergic_tokenizer_account.key) = PROGRAM_ID

process_initialize_lysergic_tokenizer(b, now, accounts, principal_token_mint, yield_token_mint, underlying_mint, underlying_vault, expiry, fixed_apy) ==
    IF Len(accounts) < 6 THEN Err("NotEnoughAccountKeys", b) ELSE
    LET lysergic_tokenizer_account == accounts[1]
        authority == accounts[2]
        underlying_vault_account == accounts[3]
        underlying_mint_account == accounts[4]
        token_program == accounts[5]
        system_program == accounts[6]
        expiry_date == to_expiry_date(expiry, now.utc)
    IN
    IF lysergic_tokenizer_account.key
         # get_tokenizer_address(authority.key, underlying_mint, expiry_date)
    THEN Err("IncorrectTokenizerAddress", b)
    ELSE IF ~authority.is_signer THEN Err("MissingRequiredSignature", b)
    ELSE IF underlying_vault_account.key
              # get_associated_token_address(lysergic_tokenizer_account.key, underlying_mint)
    THEN Err("IncorrectVaultAddress", b)
    ELSE IF underlying_mint # underlying_mint_account.key
    THEN Err("IncorrectUnderlyingMintAddress", b)
    ELSE IF principal_token_mint
              # get_principal_mint_address(lysergic_tokenizer_account.key, underlying_mint)
    THEN Err("IncorrectPrincipalMintAddress", b)
    ELSE IF yield_token_mint
              # get_yield_mint_address(lysergic_tokenizer_account.key, underlying_mint)
    THEN Err("IncorrectYieldMintAddress", b)
    ELSE IF token_program.key # SPL_TOKEN_ID THEN Err("IncorrectProgramId", b)
    ELSE IF system_program.key # SYSTEM_PROGRAM_ID THEN Err("IncorrectProgramId", b)
    ELSE IF ~tokenizer_account_owned(b, lysergic_tokenizer_account)
    THEN LET required_lamports ==
                 IF RentMinimum > Lamports(b, lysergic_tokenizer_account.key)
                 THEN RentMinimum - Lamports(b, lysergic_tokenizer_account.key)
                 ELSE 0
         IN  Rollback(b,
               AndThen(AndThen(
                 create_account(b, authority.key, authority.is_signer,
                                lysergic_tokenizer_account.key, required_lamports,
                                PROGRAM_ID),
                 LAMBDA b1 : create_associated_token_account(b1, authority.key,
                                 authority.is_signer, underlying_vault_account.key)),
                 LAMBDA b2 : Ok([b2 EXCEPT !.data =
                                 Assign(@, lysergic_tokenizer_account.key,
                                        LysergicTokenizerState(principal_token_mint,
                                            yield_token_mint, underlying_mint,
                                            underlying_vault, expiry_date, fixed_apy))])))
    ELSE Err("TokenizerAlreadyInitialized", b)

process_initialize_mints(b, now, accounts, underlying_mint, expiry) ==
    IF Len(accounts) < 6 THEN Err("NotEnoughAccountKeys", b) ELSE
    LET lysergic_tokenizer_account == accounts[1]
        authority == accounts[2]
        underlying_mint_account == accounts[3]
        principal_token_mint_account == accounts[4]
        yield_token_mint_account == accounts[5]
        token_program == accounts[6]
        expiry_date == to_expiry_date(expiry, now.utc)
    IN
    IF lysergic_tokenizer_account.key
         # get_tokenizer_address(token_program.key, underlying_mint, expiry_date)
    THEN Err("IncorrectTokenizerAddress", b)
    ELSE IF ~authority.is_signer THEN Err("MissingRequiredSignature", b)
    ELSE IF token_program.key # SPL_TOKEN_ID THEN Err("IncorrectProgramId", b)
    ELSE IF Owner(b, lysergic_tokenizer_account.key) = PROGRAM_ID
            /\ DataLen(b, lysergic_tokenizer_account.key) < LYSERGIC_TOKENIZER_STATE_SIZE
    THEN Err("ProgramFailedToComplete", b)
    ELSE
    LET lysergic_tokenizer_state == Get(b.data, lysergic_tokenizer_account.key, ZeroState)
        checked ==
            IF Owner(b, lysergic_tokenizer_account.key) = PROGRAM_ID
            THEN IF lysergic_tokenizer_state.principal_token_mint
                      # principal_token_mint_account.key
                 THEN "IncorrectPrincipalMintAddress"
                 ELSE IF lysergic_tokenizer_state.yield_token_mint
                           # yield_token_mint_account.key
                 THEN "IncorrectYieldMintAddress"
                 ELSE IF lysergic_tokenizer_state.underlying_mint
                           # underlying_mint_account.key
                 THEN "IncorrectUnderlyingMintAddress"
                 ELSE IF lysergic_tokenizer_state.expiry_date # expiry_date
                 THEN "InvalidExpiryDate"
                 ELSE IF lysergic_tokenizer_state.underlying_vault
                           # get_associated_token_address(lysergic_tokenizer_account.key,
                                 lysergic_tokenizer_state.underlying_mint)
                 THEN "IncorrectVaultAddress"
                 ELSE "Ok"
            ELSE IF principal_token_mint_account.key
                      # get_principal_mint_address(token_program.key,
                                                   lysergic_tokenizer_account.key)
                 THEN "IncorrectPrincipalMintAddress"
                 ELSE IF yield_token_mint_account.key
                           # get_yield_mint_address(token_program.key,
                                                    lysergic_tokenizer_account.key)
                 THEN "IncorrectYieldMintAddress"
                 ELSE "Ok"
    IN  IF checked # "Ok" THEN Err(checked, b)
        ELSE Rollback(b,
               AndThen(initialize_mint(b, principal_token_mint_account.key,
                                       lysergic_tokenizer_account.key),
                       LAMBDA b1 : initialize_mint(b1, yield_token_mint_account.key,
                                                   lysergic_tokenizer_account.key)))

process_initialize_tokenizer_and_mints(b, now, accounts, underlying_vault, underlying_mint, principal_token_mint, yield_token_mint, expiry, fixed_apy) ==
    IF Len(accounts) < 9 THEN Err("NotEnoughAccountKeys", b) ELSE
    LET lysergic_tokenizer_account == accounts[1]
        authority == accounts[2]
        underlying_vault_account == accounts[3]
        underlying_mint_account == accounts[4]
        principal_token_mint_account == accounts[5]
        yield_token_mint_account == accounts[6]
        token_program == accounts[7]
        associated_token_account_program == accounts[8]
        system_program == accounts[9]
        initialize_tokenizer_accounts ==
            <<lysergic_tokenizer_account, authority, underlying_vault_account,
              token_program, associated_token_account_program, system_program>>
        initialize_mint_accounts ==
            <<lysergic_tokenizer_account, underlying_mint_account,
              principal_token_mint_account, yield_token_mint_account, token_program>>
    IN  Rollback(b,
          AndThen(process_initialize_lysergic_tokenizer(b, now,
                      initialize_tokenizer_accounts, principal_token_mint,
                      yield_token_mint, underlying_mint, underlying_vault, expiry,
                      fixed_apy),
                  LAMBDA b1 : process_initialize_mints(b1, now, initialize_mint_accounts,
                                                       underlying_mint, expiry)))

\* variant of process_deposit_underlying: the amount deposited is minted to
\* the user in principal tokens as well
process_deposit_underlying_minting(b, accounts, amount) ==
    IF Len(accounts) < 5 THEN Err("NotEnoughAccountKeys", b)
    ELSE IF DataLen(b, accounts[1].key) < LYSERGIC_TOKENIZER_STATE_SIZE
    THEN Err("ProgramFailedToComplete", b)
    ELSE AndThen(token_transfer(b, accounts[4].key, accounts[2].key,
                                accounts[3].is_signer, amount),
                 LAMBDA b1 : mint_to(b1, b.data[accounts[1].key].principal_token_mint,
                                     accounts[4].key, amount))

process_deposit_underlying(b, accounts, amount) ==
    IF Len(accounts) < 5 THEN Err("NotEnoughAccountKeys", b) ELSE
    LET lysergic_tokenizer_account == accounts[1]
        underlying_vault_account == accounts[2]
        user_account == accounts[3]
        user_underlying_token_account == accounts[4]
        token_program == accounts[5]
    IN
    IF DataLen(b, lysergic_tokenizer_account.key) < LYSERGIC_TOKENIZER_STATE_SIZE
    THEN Err("ProgramFailedToComplete", b) ELSE
    LET lysergic_tokenizer_state == b.data[lysergic_tokenizer_account.key] IN
    IF Owner(b, lysergic_tokenizer_account.key) # PROGRAM_ID
    THEN Err("TokenizerNotInitialized", b)
    ELSE IF underlying_vault_account.key # lysergic_tokenizer_state.underlying_vault
    THEN Err("IncorrectVaultAddress", b)
    ELSE IF ~user_account.is_signer THEN Err("MissingRequiredSignature", b)
    ELSE IF user_underlying_token_account.key
              # get_associated_token_address(user_account.key,
                                             lysergic_tokenizer_state.underlying_mint)
    THEN Err("InvalidUserAccount", b)
    ELSE IF token_program.key # SPL_TOKEN_ID THEN Err("IncorrectProgramId", b)
    ELSE token_transfer(b, user_underlying_token_account.key,
                        underlying_vault_account.key, user_account.is_signer, amount)

process_tokenize_principal(b, now, accounts, amount) ==
    IF Len(accounts) < 5 THEN Err("NotEnoughAccountKeys", b) ELSE
    LET lysergic_tokenizer_account == accounts[1]
        principal_token_mint_account == accounts[2]
        user_account == accounts[3]
        user_principal_token_account == accounts[4]
        token_program == accounts[5]
    IN
    IF Owner(b, lysergic_tokenizer_account.key) # PROGRAM_ID
    THEN Err("TokenizerNotInitialized", b)
    ELSE IF DataLen(b, lysergic_tokenizer_account.key) < LYSERGIC_TOKENIZER_STATE_SIZE
    THEN Err("ProgramFailedToComplete", b) ELSE
    LET lysergic_tokenizer_state == b.data[lysergic_tokenizer_account.key] IN
    IF expiry_date_elapsed(lysergic_tokenizer_state, now.unix_timestamp) THEN Err("ExpiryDateElapsed", b)
    ELSE IF principal_token_mint_account.key # lysergic_tokenizer_state.principal_token_mint
    THEN Err("IncorrectPrincipalMintAddress", b)
    ELSE IF user_principal_token_account.key
              # get_associated_token_address(user_account.key,
                                             lysergic_tokenizer_state.principal_token_mint)
    THEN Err("InvalidUserAccount", b)
    ELSE IF token_program.key # SPL_TOKEN_ID THEN Err("IncorrectProgramId", b)
    ELSE
    LET create == Owner(b, user_principal_token_account.key) # token_program.key
    IN  IF create /\ Len(accounts) < 6 THEN Err("NotEnoughAccountKeys", b)
        ELSE IF create /\ accounts[6].key # SYSTEM_PROGRAM_ID
        THEN Err("IncorrectProgramId", b)
        ELSE Rollback(b,
               AndThen(
                 IF create
                 THEN create_associated_token_account(b, user_account.key,
                          user_account.is_signer, user_principal_token_account.key)
                 ELSE Ok(b),
                 LAMBDA b1 : invoke_signed(b1, mint_to(b1, principal_token_mint_account.key,
                                 user_principal_token_account.key, amount), {},
                                 SignerSeeds, lysergic_tokenizer_account)))

process_tokenize_yield(b, now, accounts, amount) ==
    IF Len(accounts) < 5 THEN Err("NotEnoughAccountKeys", b) ELSE
    LET lysergic_tokenizer_account == accounts[1]
        yield_token_mint_account == accounts[2]
        user_account == accounts[3]
        user_yield_token_account == accounts[4]
        token_program == accounts[5]
    IN
    IF Owner(b, lysergic_tokenizer_account.key) # PROGRAM_ID
    THEN Err("TokenizerNotInitialized", b)
    ELSE IF DataLen(b, lysergic_tokenizer_account.key) < LYSERGIC_TOKENIZER_STATE_SIZE
    THEN Err("ProgramFailedToComplete", b) ELSE
    LET lysergic_tokenizer_state == b.data[lysergic_tokenizer_account.key] IN
    IF expiry_date_elapsed(lysergic_tokenizer_state, now.unix_timestamp) THEN Err("ExpiryDateElapsed", b)
    ELSE IF yield_token_mint_account.key # lysergic_tokenizer_state.yield_token_mint
    THEN Err("IncorrectYieldMintAddress", b)
    ELSE IF user_yield_token_account.key
              # get_associated_token_address(user_account.key,
                                             lysergic_tokenizer_state.yield_token_mint)
    THEN Err("InvalidUserAccount", b)
    ELSE IF token_program.key # SPL_TOKEN_ID THEN Err("IncorrectProgramId", b)
    ELSE
    LET create == Owner(b, user_yield_token_account.key) # token_program.key
    IN  IF create /\ Len(accounts) < 6 THEN Err("NotEnoughAccountKeys", b)
        ELSE IF create /\ accounts[6].key # SYSTEM_PROGRAM_ID
        THEN Err("IncorrectProgramId", b)
        ELSE Rollback(b,
               AndThen(
                 IF create
                 THEN create_associated_token_account(b, user_account.key,
                          user_account.is_signer, user_yield_token_account.key)
                 ELSE Ok(b),
                 LAMBDA b1 : invoke_signed(b1, mint_to(b1, yield_token_mint_account.key,
                                 user_yield_token_account.key, amount), {}, SignerSeeds,
                                 lysergic_tokenizer_account)))

process_deposit_and_tokenize(b, now, accounts, amount) ==
    IF Len(accounts) < 9 THEN Err("NotEnoughAccountKeys", b) ELSE
    LET lysergic_tokenizer_account == accounts[1]
        underlying_vault_account == accounts[2]
        principal_token_mint_account == accounts[3]
        yield_token_mint_account == accounts[4]
        user_account == accounts[5]
        user_underlying_token_account == accounts[6]
        user_principal_token_account == accounts[7]
        user_yield_token_account == accounts[8]
        token_program == accounts[9]
        deposit_accounts ==
            <<lysergic_tokenizer_account, underlying_vault_account, user_account,
              user_underlying_token_account, token_program>>
        tokenize_prinicpal_accounts ==
            <<lysergic_tokenizer_account, principal_token_mint_account, user_account,
              user_principal_token_account, token_program>>
        tokenize_yield_accounts ==
            <<lysergic_tokenizer_account, yield_token_mint_account, user_account,
              user_yield_token_account, token_program>>
    IN  Rollback(b,
          AndThen(AndThen(
            process_deposit_underlying(b, deposit_accounts, amount),
            LAMBDA b1 : process_tokenize_principal(b1, now, tokenize_prinicpal_accounts,
                                                   amount)),
            LAMBDA b2 : process_tokenize_yield(b2, now, tokenize_yield_accounts, amount)))

\* the transfer out of the vault that process_redeem_principal sends to the
\* token program, on its account list: spl_token::instruction::transfer(
\* underlying_vault_account, user_principal_token_account,
\* lysergic_tokenizer_account, amount)
redeem_principal_transfer(b, accounts, amount) ==
    token_transfer(b, accounts[2].key, accounts[7].key, TRUE, amount)

\* RedemptionMode: "Mature" or "PrincipalYield"
process_redeem_principal(b, now, accounts, redemption_mode, amount) ==
    IF Len(accounts) < 9 THEN Err("NotEnoughAccountKeys", b) ELSE
    LET lysergic_tokenizer_account == accounts[1]
        underlying_vault_account == accounts[2]
        underlying_mint_account == accounts[3]
        principal_token_mint_account == accounts[4]
        user_account == accounts[5]
        user_underlying_token_account == accounts[6]
        user_principal_token_account == accounts[7]
        token_program == accounts[8]
        system_program == accounts[9]
    IN
    IF Owner(b, lysergic_tokenizer_account.key) # PROGRAM_ID
    THEN Err("TokenizerNotInitialized", b)
    ELSE IF DataLen(b, lysergic_tokenizer_account.key) < LYSERGIC_TOKENIZER_STATE_SIZE
    THEN Err("ProgramFailedToComplete", b) ELSE
    LET lysergic_tokenizer_state == b.data[lysergic_tokenizer_account.key] IN
    IF redemption_mode = "Mature"
       /\ expiry_date_not_elapsed(lysergic_tokenizer_state, now.unix_timestamp)
    THEN Err("ExpiryDateNotElapsed", b)
    ELSE IF underlying_vault_account.key # lysergic_tokenizer_state.underlying_vault
    THEN Err("IncorrectVaultAddress", b)
    ELSE IF underlying_mint_account.key # lysergic_tokenizer_state.underlying_mint
    THEN Err("IncorrectUnderlyingMintAddress", b)
    ELSE IF principal_token_mint_account.key # lysergic_tokenizer_state.principal_token_mint
    THEN Err("IncorrectPrincipalMintAddress", b)
    ELSE IF user_underlying_token_account.key
              # get_associated_token_address(user_account.key,
                                             lysergic_tokenizer_state.underlying_mint)
    THEN Err("InvalidUserAccount", b)
    ELSE IF user_principal_token_account.key
              # get_associated_token_address(user_account.key,
                                             lysergic_tokenizer_state.principal_token_mint)
    THEN Err("InvalidUserAccount", b)
    ELSE IF token_program.key # SPL_TOKEN_ID THEN Err("IncorrectProgramId", b)
    ELSE
    LET create == Owner(b, user_underlying_token_account.key) # token_program.key
    IN  IF create /\ system_program.key # SYSTEM_PROGRAM_ID
        THEN Err("IncorrectProgramId", b)
        ELSE Rollback(b,
               AndThen(AndThen(
                 IF create
                 THEN create_associated_token_account(b, user_account.key,
                          user_account.is_signer, user_underlying_token_account.key)
                 ELSE Ok(b),
                 LAMBDA b1 : invoke_signed(b1,
                                 redeem_principal_transfer(b1, accounts, amount), {},
                                 SignerSeeds, lysergic_tokenizer_account)),
                 LAMBDA b2 : burn(b2, user_principal_token_account.key,
                                  principal_token_mint_account.key,
                                  user_account.is_signer, amount)))

process_redeem_mature_principal(b, now, accounts, amount) ==
    process_redeem_principal(b, now, accounts, "Mature", amount)

\* the transfer out of the vault that process_claim_yield sends to the token
\* program, on its account list: spl_token::instruction::transfer(
\* underlying_vault_account, user_yield_token_account,
\* lysergic_tokenizer_account, amount)
claim_yield_transfer(b, accounts, amount) ==
    token_transfer(b, accounts[2].key, accounts[7].key, TRUE, amount)

process_claim_yield(b, accounts, amount) ==
    IF Len(accounts) < 8 THEN Err("NotEnoughAccountKeys", b) ELSE
    LET lysergic_tokenizer_account == accounts[1]
        underlying_vault_account == accounts[2]
        underlying_mint_account == accounts[3]
        yield_token_mint_account == accounts[4]
        user_account == accounts[5]
        user_underlying_token_account == accounts[6]
        user_yield_token_account == accounts[7]
        token_program == accounts[8]
    IN
    IF Owner(b, lysergic_tokenizer_account.key) # PROGRAM_ID
    THEN Err("TokenizerNotInitialized", b)
    ELSE IF DataLen(b, lysergic_tokenizer_account.key) < LYSERGIC_TOKENIZER_STATE_SIZE
    THEN Err("ProgramFailedToComplete", b) ELSE
    LET lysergic_tokenizer_state == b.data[lysergic_tokenizer_account.key] IN
    IF underlying_vault_account.key # lysergic_tokenizer_state.underlying_vault
    THEN Err("IncorrectVaultAddress", b)
    ELSE IF yield_token_mint_account.key # lysergic_tokenizer_state.yield_token_mint
    THEN Err("IncorrectYieldMintAddress", b)
    ELSE IF user_underlying_token_account.key
              # get_associated_token_address(user_account.key,
                                             lysergic_tokenizer_state.underlying_mint)
    THEN Err("InvalidUserAccount", b)
    ELSE IF user_yield_token_account.key
              # get_associated_token_address(user_account.key,
                                             lysergic_tokenizer_state.yield_token_mint)
    THEN Err("InvalidUserAccount", b)
    ELSE IF token_program.key # SPL_TOKEN_ID THEN Err("IncorrectProgramId", b)
    ELSE
    LET create == Owner(b, user_underlying_token_account.key) # token_program.key
    IN  IF create /\ Len(accounts) < 9 THEN Err("NotEnoughAccountKeys", b)
        ELSE IF create /\ accounts[9].key # SYSTEM_PROGRAM_ID
        THEN Err("IncorrectProgramId", b)
        ELSE Rollback(b,
               AndThen(AndThen(
                 IF create
                 THEN create_associated_token_account(b, user_account.key,
                          user_account.is_signer, user_underlying_token_account.key)
                 ELSE Ok(b),
                 LAMBDA b1 : invoke_signed(b1,
                                 claim_yield_transfer(b1, accounts, amount), {},
                                 SignerSeeds, lysergic_tokenizer_account)),
                 LAMBDA b2 : burn(b2, user_yield_token_account.key,
                                  yield_token_mint_account.key,
                                  user_account.is_signer, amount)))

process_redeem_principal_and_yield(b, now, accounts, amount) ==
    IF Len(accounts) < 10 THEN Err("NotEnoughAccountKeys", b) ELSE
    LET lysergic_tokenizer_account == accounts[1]
        underlying_vault_account == accounts[2]
        underlying_mint_account == accounts[3]
        principal_token_mint_account == accounts[4]
        yield_token_mint_account == accounts[5]
        user_account == accounts[6]
        user_underlying_token_account == accounts[7]
        user_principal_token_account == accounts[8]
        user_yield_token_account == accounts[9]
        token_program == accounts[10]
        redeem_principal_accounts ==
            <<lysergic_tokenizer_account, underlying_vault_account,
              underlying_mint_account, principal_token_mint_account, user_account,
              user_principal_token_account, token_program>>
        claim_yield_accounts ==
            <<lysergic_tokenizer_account, underlying_vault_account,
              underlying_mint_account, yield_token_mint_account, user_account,
              user_underlying_token_account, user_yield_token_account, token_program>>
    IN  Rollback(b,
          AndThen(process_redeem_principal(b, now, redeem_principal_accounts,
                                           "PrincipalYield", amount),
                  LAMBDA b1 : process_claim_yield(b1, claim_yield_accounts, amount)))

\* the transfer of lamports that process_terminate_lysergic_tokenizer sends
\* to the system program, on its account list: system_instruction::transfer(
\* lysergic_tokenizer_account, authority, the lamports of
\* lysergic_tokenizer_account)
terminate_lysergic_tokenizer_transfer(b, accounts) ==
    system_transfer(b, accounts[1].key, accounts[2].key, Lamports(b, accounts[1].key))

process_terminate_lysergic_tokenizer(b, now, accounts) ==
    IF Len(accounts) < 5 THEN Err("NotEnoughAccountKeys", b) ELSE
    LET lysergic_tokenizer_account == accounts[1]
        authority == accounts[2]
        underlying_vault_account == accounts[3]
        token_program == accounts[4]
        system_program == accounts[5]
    IN
    IF DataLen(b, lysergic_tokenizer_account.key) < LYSERGIC_TOKENIZER_STATE_SIZE
    THEN Err("ProgramFailedToComplete", b) ELSE
    LET lysergic_tokenizer_state == b.data[lysergic_tokenizer_account.key] IN
    IF expiry_date_not_elapsed(lysergic_tokenizer_state, now.unix_timestamp)
    THEN Err("ExpiryDateNotElapsed", b)
    ELSE
    Rollback(b,
      AndThen(AndThen(AndThen(
        check_program_account(b, token_program.key),
        LAMBDA b0 : invoke_signed(b0, close_account(b0, underlying_vault_account.key,
                                                authority.key), {}, SignerSeeds,
                                  lysergic_tokenizer_account)),
        \* the Ref of lysergic_tokenizer_account.lamports taken for the amount
        \* lives to the end of the statement
        LAMBDA b1 : invoke_signed(b1, terminate_lysergic_tokenizer_transfer(b1, accounts),
                        {lysergic_tokenizer_account.key},
                        SignerSeeds, lysergic_tokenizer_account)),
        LAMBDA b2 : Ok([b2 EXCEPT
                   !.owner = Put(@, lysergic_tokenizer_account.key, SYSTEM_PROGRAM_ID,
                                 SYSTEM_PROGRAM_ID),
                   !.data = Remove(@, lysergic_tokenizer_account.key)])))

\* the transfer of lamports that process_terminate_mints sends to the system
\* program, on its account list: system_instruction::transfer(
\* lysergic_tokenizer_account, authority, 0)
terminate_mints_transfer(b, accounts) ==
    system_transfer(b, accounts[1].key, accounts[2].key, 0)

\* variant of process_terminate_mints: the mints terminated as the position is,
\* the record cleared
process_terminate_mints_clearing(b, now, accounts) ==
    IF Len(accounts) < 6 THEN Err("NotEnoughAccountKeys", b)
    ELSE Ok([b EXCEPT !.data = Remove(@, accounts[1].key)])

process_terminate_mints(b, now, accounts) ==
    IF Len(accounts) < 6 THEN Err("NotEnoughAccountKeys", b) ELSE
    LET lysergic_tokenizer_account == accounts[1]
        authority == accounts[2]
        principal_token_mint_account == accounts[3]
        yield_token_mint_account == accounts[4]
        token_program == accounts[5]
        system_program == accounts[6]
    IN
    IF DataLen(b, lysergic_tokenizer_account.key) < LYSERGIC_TOKENIZER_STATE_SIZE
    THEN Err("ProgramFailedToComplete", b) ELSE
    LET lysergic_tokenizer_state == b.data[lysergic_tokenizer_account.key] IN
    IF expiry_date_not_elapsed(lysergic_tokenizer_state, now.unix_timestamp)
    THEN Err("ExpiryDateNotElapsed", b)
    ELSE
    Rollback(b,
      AndThen(AndThen(AndThen(AndThen(
        check_program_account(b, token_program.key),
        LAMBDA b0 : invoke_signed(b0, close_account(b0, principal_token_mint_account.key,
                                                authority.key), {}, SignerSeeds,
                                  lysergic_tokenizer_account)),
        LAMBDA b1 : check_program_account(b1, token_program.key)),
        LAMBDA b2 : invoke_signed(b2, close_account(b2, yield_token_mint_account.key,
                                                authority.key), {}, SignerSeeds,
                                  lysergic_tokenizer_account)),
        LAMBDA b3 : invoke_signed(b3, terminate_mints_transfer(b3, accounts), {},
                                  SignerSeeds, lysergic_tokenizer_account)))

process_terminate(b, now, accounts) ==
    IF Len(accounts) < 7 THEN Err("NotEnoughAccountKeys", b) ELSE
    LET lysergic_tokenizer_account == accounts[1]
        authority == accounts[2]
        underlying_vault_account == accounts[3]
        principal_token_mint_account == accounts[4]
        yield_token_mint_account == accounts[5]
        token_program == accounts[6]
        system_program == accounts[7]
        terminate_tokenizer_accounts ==
            <<lysergic_tokenizer_account, authority, underlying_vault_account,
              token_program, system_program>>
        terminate_mint_accounts ==
            <<lysergic_tokenizer_account, authority, principal_token_mint_account,
              yield_token_mint_account, token_program, system_program>>
    IN  Rollback(b,
          AndThen(process_terminate_mints(b, now, terminate_tokenizer_accounts),
                  LAMBDA b1 : process_terminate_lysergic_tokenizer(b1, now,
                                  terminate_mint_accounts)))

\* LysergicTokenizerProcessor::process: the instruction is the decoded
\* LysergicTokenizerInstruction, a record with its tag and fields
process(b, now, program_id, accounts, instruction) ==
    IF program_id # PROGRAM_ID THEN Err("IncorrectProgramId", b)
    ELSE CASE instruction.tag = "InitializeLysergicTokenizer" ->
                process_initialize_lysergic_tokenizer(b, now, accounts,
                    instruction.underlying_vault, instruction.underlying_mint,
                    instruction.principal_token_mint, instruction.yield_token_mint,
                    instruction.expiry, instruction.fixed_apy)
           [] instruction.tag = "InitializeMints" ->
                process_initialize_mints(b, now, accounts, instruction.underlying_mint,
                                         instruction.expiry)
           [] instruction.tag = "InitializeTokenizerAndMints" ->
                process_initialize_tokenizer_and_mints(b, now, accounts,
                    instruction.underlying_vault, instruction.underlying_mint,
                    instruction.principal_token_mint, instruction.yield_token_mint,
                    instruction.expiry, instruction.fixed_apy)
           [] instruction.tag = "DepositUnderlying" ->
                process_deposit_underlying(b, accounts, instruction.amount)
           [] instruction.tag = "TokenizePrincipal" ->
                process_tokenize_principal(b, now, accounts, instruction.amount)
           [] instruction.tag = "TokenizeYield" ->
                process_tokenize_yield(b, now, accounts, instruction.amount)
           [] instruction.tag = "DepositAndTokenize" ->
                process_deposit_and_tokenize(b, now, accounts, instruction.amount)
           [] instruction.tag = "RedeemPrincipalAndYield" ->
                process_redeem_principal_and_yield(b, now, accounts, instruction.amount)
           [] instruction.tag = "RedeemMaturePrincipal" ->
                process_redeem_mature_principal(b, now, accounts,
                                                instruction.principal_amount)
           [] instruction.tag = "ClaimYield" ->
                process_claim_yield(b, accounts, instruction.yield_amount)
           [] instruction.tag = "Terminate" -> process_terminate(b, now, accounts)
           [] instruction.tag = "TerminateLysergicTokenizer" ->
                process_terminate_lysergic_tokenizer(b, now, accounts)
           [] instruction.tag = "TerminateMints" ->
                process_terminate_mints(b, now, accounts)

\* ------------------------------------------------------------------------
\* Instruction data.  The data is a string of bytes: the discriminant byte
\* of the variant and the bytes of its fields, one after the other, as borsh
\* writes them.  try_from_slice reads the discriminant and the fields of its
\* variant from the front of the string and fails when a byte is missing,
\* when the byte of an Expiry names no variant, or when bytes are left over.
\* ------------------------------------------------------------------------
PUBKEY_BYTES == 32
U64_BYTES == 8
EXPIRY_BYTES == 1

\* the variants of LysergicTokenizerInstruction in the order of the enum
VariantTag ==
    <<"InitializeLysergicTokenizer", "InitializeMints",
      "InitializeTokenizerAndMints", "DepositUnderlying", "TokenizePrincipal",
      "TokenizeYield", "DepositAndTokenize", "RedeemPrincipalAndYield",
      "RedeemMaturePrincipal", "ClaimYield", "Terminate",
      "TerminateLysergicTokenizer", "TerminateMints">>

\* the variants of Expiry in the order of the enum
ExpiryVariant == <<"TwelveMonths", "EighteenMonths", "TwentyFourMonths">>

\* the 32 bytes of a key: a key of the model stands for the bytes that
\* begin with its elements and end in zeros
pubkey_to_bytes(key) == key \o [i \in 1..(PUBKEY_BYTES - Len(key)) |-> 0]

RECURSIVE pubkey_from_bytes(_)
pubkey_from_bytes(bytes) ==
    IF Len(bytes) > 1 /\ bytes[Len(bytes)] = 0
    THEN pubkey_from_bytes(SubSeq(bytes, 1, Len(bytes) - 1))
    ELSE bytes

\* the little-endian bytes of an unsigned integer, as borsh writes a u64
RECURSIVE u64_to_le_bytes(_, _)
u64_to_le_bytes(n, width) ==
    IF width = 0 THEN <<>>
    ELSE <<n % 256>> \o u64_to_le_bytes(n \div 256, width - 1)

RECURSIVE u64_from_le_bytes(_)
u64_from_le_bytes(bytes) ==
    IF bytes = <<>> THEN 0
    ELSE Head(bytes) + 256 * u64_from_le_bytes(Tail(bytes))

\* the sizes of the fields of a variant, in the order of its declaration
VariantLayout(discriminant) ==
    CASE discriminant \in {0, 2} ->
             <<PUBKEY_BYTES, PUBKEY_BYTES, PUBKEY_BYTES, PUBKEY_BYTES, EXPIRY_BYTES,
               U64_BYTES>>
      [] discriminant = 1 -> <<PUBKEY_BYTES, EXPIRY_BYTES>>
      [] discriminant \in 3..9 -> <<U64_BYTES>>
      [] discriminant \in 10..12 -> <<>>

RECURSIVE PayloadBytes(_)
PayloadBytes(layout) ==
    IF layout = <<>> THEN 0 ELSE Head(layout) + PayloadBytes(Tail(layout))

\* the byte at which the field of an Expiry stands, 0 for a variant without
ExpiryOffset(discriminant) ==
    CASE discriminant \in {0, 2} -> 1 + 4 * PUBKEY_BYTES + 1
      [] discriminant = 1 -> 1 + PUBKEY_BYTES + 1
      [] OTHER -> 0

\* BorshSerialize of LysergicTokenizerInstruction, as the builders call it
\* through Instruction::new_with_borsh
serialize(instruction) ==
    LET IndexOf(seq, value) == CHOOSE i \in 1..Len(seq) : seq[i] = value
        discriminant == IndexOf(VariantTag, instruction.tag) - 1
        expiry_byte(e) == <<IndexOf(ExpiryVariant, e) - 1>>
    IN  <<discriminant>> \o
        CASE discriminant \in {0, 2} ->
                 pubkey_to_bytes(instruction.underlying_vault)
                   \o pubkey_to_bytes(instruction.underlying_mint)
                   \o pubkey_to_bytes(instruction.principal_token_mint)
                   \o pubkey_to_bytes(instruction.yield_token_mint)
                   \o expiry_byte(instruction.expiry)
                   \o u64_to_le_bytes(instruction.fixed_apy, U64_BYTES)
          [] discriminant = 1 ->
                 pubkey_to_bytes(instruction.underlying_mint)
                   \o expiry_byte(instruction.expiry)
          [] discriminant \in 3..7 -> u64_to_le_bytes(instruction.amount, U64_BYTES)
          [] discriminant = 8 ->
                 u64_to_le_bytes(instruction.principal_amount, U64_BYTES)
          [] discriminant = 9 -> u64_to_le_bytes(instruction.yield_amount, U64_BYTES)
          [] discriminant \in 10..12 -> <<>>

\* try_from_slice succeeds: the discriminant names a variant, the bytes
\* that follow are the fields of the variant and no more, and the byte of
\* an Expiry names a term
Decodable(data) ==
    /\ Len(data) >= 1
    /\ data[1] \in 0..(Len(VariantTag) - 1)
    /\ Len(data) = 1 + PayloadBytes(VariantLayout(data[1]))
    /\ ExpiryOffset(data[1]) # 0
           => data[ExpiryOffset(data[1])] \in 0..(Len(ExpiryVariant) - 1)

Decoded(data) ==
    LET FieldAt(d, offset, size) == SubSeq(d, offset + 1, offset + size)
        discriminant == data[1]
        tag == VariantTag[discriminant + 1]
        key(n) == pubkey_from_bytes(FieldAt(data, 1 + (n - 1) * PUBKEY_BYTES,
                                            PUBKEY_BYTES))
        expiry == ExpiryVariant[data[ExpiryOffset(discriminant)] + 1]
    IN  CASE discriminant \in {0, 2} ->
                 [tag |-> tag, underlying_vault |-> key(1), underlying_mint |-> key(2),
                  principal_token_mint |-> key(3), yield_token_mint |-> key(4),
                  expiry |-> expiry,
                  fixed_apy |-> u64_from_le_bytes(
                      FieldAt(data, 1 + 4 * PUBKEY_BYTES + EXPIRY_BYTES, U64_BYTES))]
          [] discriminant = 1 ->
                 [tag |-> tag, underlying_mint |-> key(1), expiry |-> expiry]
          [] discriminant \in 3..7 ->
                 [tag |-> tag, amount |-> u64_from_le_bytes(FieldAt(data, 1, U64_BYTES))]
          [] discriminant = 8 ->
                 [tag |-> tag,
                  principal_amount |-> u64_from_le_bytes(FieldAt(data, 1, U64_BYTES))]
          [] discriminant = 9 ->
                 [tag |-> tag,
                  yield_amount |-> u64_from_le_bytes(FieldAt(data, 1, U64_BYTES))]
          [] discriminant \in 10..12 -> [tag |-> tag]

\* variant of try_from_slice: the bytes left over after the last field are
\* ignored
try_from_slice_prefix(data) ==
    LET size == IF Len(data) >= 1 /\ data[1] \in 0..(Len(VariantTag) - 1)
                THEN 1 + PayloadBytes(VariantLayout(data[1]))
                ELSE 0
        read == SubSeq(data, 1, size)
    IN  IF Len(data) >= size /\ Decodable(read) THEN Decoded(read)
        ELSE [tag |-> "Err"]

try_from_slice(data) ==
    IF Decodable(data) THEN Decoded(data) ELSE [tag |-> "Err"]

\* process from the instruction data: the program id, the decoding, then the
\* handler of the variant
process_instruction(b, now, program_id, accounts, instruction_data) ==
    IF program_id # PROGRAM_ID THEN Err("IncorrectProgramId", b)
    ELSE LET instruction == try_from_slice(instruction_data)
         IN  IF instruction.tag = "Err" THEN Err("InvalidInstructionData", b)
             ELSE process(b, now, program_id, accounts, instruction)

\* ------------------------------------------------------------------------
\* The instruction builders of src/src/instruction.rs: the account list of
\* each instruction, with the signer flag the builder sets
\* ------------------------------------------------------------------------
TOKEN_PROGRAM_META == Acc(SPL_TOKEN_ID, FALSE)
SYSTEM_PROGRAM_META == Acc(SYSTEM_PROGRAM_ID, FALSE)

init_lysergic_tokenizer(lysergic_tokenizer, authority, underlying_vault, underlying_mint) ==
    <<Acc(lysergic_tokenizer, FALSE), Acc(authority, TRUE), Acc(underlying_vault, FALSE),
      Acc(underlying_mint, FALSE), TOKEN_PROGRAM_META, SYSTEM_PROGRAM_META>>

init_mints(lysergic_tokenizer, authority, principal_token_mint, yield_token_mint) ==
    <<Acc(lysergic_tokenizer, FALSE), Acc(authority, TRUE),
      Acc(principal_token_mint, FALSE), Acc(yield_token_mint, FALSE),
      TOKEN_PROGRAM_META>>

init_tokenizer_and_mints(lysergic_tokenizer, authority, underlying_vault, underlying_mint, principal_token_mint, yield_token_mint) ==
    <<Acc(lysergic_tokenizer, FALSE), Acc(authority, TRUE), Acc(underlying_vault, FALSE),
      Acc(underlying_mint, FALSE), Acc(principal_token_mint, FALSE),
      Acc(yield_token_mint, FALSE), TOKEN_PROGRAM_META, SYSTEM_PROGRAM_META>>

deposit_underlying(lysergic_tokenizer, underlying_vault, user, user_underlying_token_account) ==
    <<Acc(lysergic_tokenizer, FALSE), Acc(underlying_vault, FALSE), Acc(user, TRUE),
      Acc(user_underlying_token_account, FALSE), TOKEN_PROGRAM_META>>

tokenize_principal(lysergic_tokenizer, principal_token_mint, user, user_principal_token_account) ==
    <<Acc(lysergic_tokenizer, FALSE), Acc(principal_token_mint, FALSE), Acc(user, TRUE),
      Acc(user_principal_token_account, FALSE), TOKEN_PROGRAM_META,
      SYSTEM_PROGRAM_META>>

tokenize_yield(lysergic_tokenizer, yield_token_mint, user, user_yield_token_account) ==
    <<Acc(lysergic_tokenizer, FALSE), Acc(yield_token_mint, FALSE), Acc(user, TRUE),
      Acc(user_yield_token_account, FALSE), TOKEN_PROGRAM_META, SYSTEM_PROGRAM_META>>

deposit_and_tokenize(lysergic_tokenizer, underlying_vault, principal_token_mint, yield_token_mint, user, user_underlying_token_account, user_principal_token_account, user_yield_token_account) ==
    <<Acc(lysergic_tokenizer, FALSE), Acc(underlying_vault, FALSE),
      Acc(principal_token_mint, FALSE), Acc(yield_token_mint, FALSE), Acc(user, TRUE),
      Acc(user_underlying_token_account, FALSE),
      Acc(user_principal_token_account, FALSE), Acc(user_yield_token_account, FALSE),
      TOKEN_PROGRAM_META, SYSTEM_PROGRAM_META>>

redeem_mature_principal(lysergic_tokenizer, underlying_vault, underlying_mint, principal_token_mint, user, user_underlying_token_account, user_principal_token_account) ==
    <<Acc(lysergic_tokenizer, FALSE), Acc(underlying_vault, FALSE),
      Acc(underlying_mint, FALSE), Acc(principal_token_mint, FALSE), Acc(user, TRUE),
      Acc(user_underlying_token_account, FALSE),
      Acc(user_principal_token_account, FALSE), TOKEN_PROGRAM_META,
      SYSTEM_PROGRAM_META>>

redeem_principal_and_yield(lysergic_tokenizer, underlying_vault, underlying_mint, principal_token_mint, yield_token_mint, user, user_underlying_token_account, user_principal_token_account, user_yield_token_account) ==
    <<Acc(lysergic_tokenizer, FALSE), Acc(underlying_vault, FALSE),
      Acc(underlying_mint, FALSE), Acc(principal_token_mint, FALSE),
      Acc(yield_token_mint, FALSE), Acc(user, TRUE),
      Acc(user_underlying_token_account, FALSE),
      Acc(user_principal_token_account, FALSE), Acc(user_yield_token_account, FALSE),
      TOKEN_PROGRAM_META, SYSTEM_PROGRAM_META>>

claim_yield(lysergic_tokenizer, underlying_vault, yield_token_mint, user, user_underlying_token_account, user_yield_token_account) ==
    <<Acc(lysergic_tokenizer, FALSE), Acc(underlying_vault, FALSE),
      Acc(yield_token_mint, FALSE), Acc(user, TRUE),
      Acc(user_underlying_token_account, FALSE), Acc(user_yield_token_account, FALSE),
      TOKEN_PROGRAM_META>>

terminate(lysergic_tokenizer, authority, underlying_vault, principal_token_mint, yield_token_mint) ==
    <<Acc(lysergic_tokenizer, FALSE), Acc(authority, TRUE), Acc(underlying_vault, FALSE),
      Acc(principal_token_mint, FALSE), Acc(yield_token_mint, FALSE),
      TOKEN_PROGRAM_META, SYSTEM_PROGRAM_META>>

terminate_lysergic_tokenizer(lysergic_tokenizer, authority, underlying_vault) ==
    <<Acc(lysergic_tokenizer, FALSE), Acc(authority, TRUE), Acc(underlying_vault, FALSE),
      TOKEN_PROGRAM_META, SYSTEM_PROGRAM_META>>

terminate_mints(lysergic_tokenizer, authority, principal_token_mint, yield_token_mint) ==
    <<Acc(lysergic_tokenizer, FALSE), Acc(authority, TRUE),
      Acc(principal_token_mint, FALSE), Acc(yield_token_mint, FALSE),
      TOKEN_PROGRAM_META, SYSTEM_PROGRAM_META>>

\* the account list with the signer flag of its i-th account as the
\* transaction carries it
Signed(accounts, i, signed) == [accounts EXCEPT ![i].is_signer = signed]

\* ------------------------------------------------------------------------
\* The state machine
\* ------------------------------------------------------------------------
VARIABLES
    bank,       \* the accounts
    clock,      \* Clock::get()?.unix_timestamp, the block time
    wall,       \* Utc::now().timestamp(), the wall clock of the host, which the
                \* block time does not follow
    position,   \* key of the tokenizer account the calls address (ZERO_KEY: none yet)
    expiry,     \* expiry_date recorded when the position was initialized
    creator,    \* the authority that initialized the position
    deposited,  \* sum of the amounts of the successful deposits
    redeemed,   \* sum of the amounts of the successful principal redemptions
    claimed,    \* sum of the amounts of the successful yield claims
    separate,   \* a value-moving call other than DepositAndTokenize has succeeded
    last        \* the last call: the instruction and its result

vars ==
    <<bank, clock, wall, position, expiry, creator, deposited, redeemed, claimed,
      separate, last>>

\* block time at the start
StartTime == 1000

UserUnderlying(u) == get_associated_token_address(u, UNDERLYING_MINT)

InitBank ==
    [owner |-> [k \in {UserUnderlying(u) : u \in Users} |-> SPL_TOKEN_ID],
     lamports |-> [k \in Users \cup {UserUnderlying(u) : u \in Users} |->
                      IF k \in Users THEN InitialLamports ELSE RentMinimum],
     data |-> [k \in {} |-> ZeroState],
     amount |-> [k \in {UserUnderlying(u) : u \in Holders} |-> InitialUnderlying],
     supply |-> [k \in {} |-> 0],
     closed |-> {},
     mint_authority |-> [k \in {} |-> ZERO_KEY]]

Call(op, err) == [op |-> op, err |-> err]

\* the wall clock of the host at the start: that of the block time, or a
\* day ahead of it
WallClocks == {StartTime, StartTime + SECONDS_PER_DAY}

\* what the handlers read of the time: Utc::now() and Clock::get()
Now == [utc |-> wall, unix_timestamp |-> clock]

Init ==
    /\ bank = InitBank
    /\ clock = StartTime
    /\ wall \in WallClocks
    /\ position = ZERO_KEY
    /\ expiry = 0
    /\ creator = ZERO_KEY
    /\ deposited = 0
    /\ redeemed = 0
    /\ claimed = 0
    /\ separate = FALSE
    /\ last = Call("None", "Ok")

\* the recorded state of the addressed position (ZeroState when it has no data)
State == Get(bank.data, position, ZeroState)
Vault == State.underlying_vault
Amounts == 1..MaxAmount

\* the token accounts of a user for the mints recorded in the position
UserUnderlyingAccount(u) == get_associated_token_address(u, State.underlying_mint)
UserPrincipalAccount(u) == get_associated_token_address(u, State.principal_token_mint)
UserYieldAccount(u) == get_associated_token_address(u, State.yield_token_mint)

\* The instruction data of InitializeLysergicTokenizer for the tokenizer
\* account t.  "named": each field carries the address of its name.
\* "placed": each field carries the address the handler checks it against.
InitInstruction(t, term, layout) ==
    LET vault == get_associated_token_address(t, UNDERLYING_MINT)
        principal == get_principal_mint_address(t, UNDERLYING_MINT)
        yield == get_yield_mint_address(t, UNDERLYING_MINT)
    IN  IF layout = "named"
        THEN [tag |-> "InitializeLysergicTokenizer",
              underlying_vault |-> vault, underlying_mint |-> UNDERLYING_MINT,
              principal_token_mint |-> principal, yield_token_mint |-> yield,
              expiry |-> term, fixed_apy |-> 0]
        ELSE [tag |-> "InitializeLysergicTokenizer",
              underlying_vault |-> principal, underlying_mint |-> yield,
              principal_token_mint |-> UNDERLYING_MINT, yield_token_mint |-> vault,
              expiry |-> term, fixed_apy |-> 0]

\* The host commits the result of an instruction: the accounts it returns
\* (those before the call when it failed), and the call is the last one.
Committed(op, r) ==
    /\ bank' = r.bank
    /\ last' = Call(op, r.err)

\* a sum of the amounts of the successful calls, after the call just committed
Counted(sum, amount) == IF last'.err = "Ok" THEN sum + amount ELSE sum

\* the call just committed moved value outside DepositAndTokenize
Separately == separate' = (separate \/ last'.err = "Ok")

\* the address of the tokenizer account the client derives for a term:
\* get_block_time, to_expiry_date(timestamp), then
\* get_tokenizer_address(&mint, expiry_date) of src/program/src/lib.rs
Target(term) ==
    client_get_tokenizer_address(UNDERLYING_MINT, to_expiry_date_ts(term, clock))

\* the address of the tokenizer account process_initialize_lysergic_tokenizer
\* accepts from the authority for the term now
Accepted(authority, term) ==
    get_tokenizer_address(authority, UNDERLYING_MINT, to_expiry_date(term, wall))

\* the addresses a caller initializes at: the one the client derives and
\* the one the handler accepts
TokenizerAddresses(authority, term) == {Target(term), Accepted(authority, term)}

InitializeLysergicTokenizerCall(t, authority, signed, term, layout) ==
    process(bank, Now, PROGRAM_ID,
            Signed(init_lysergic_tokenizer(t, authority,
                       get_associated_token_address(t, UNDERLYING_MINT),
                       UNDERLYING_MINT), 2, signed),
            InitInstruction(t, term, layout))

InitializeLysergicTokenizer(t, authority, signed, term, layout) ==
    /\ Committed("InitializeLysergicTokenizer",
                 InitializeLysergicTokenizerCall(t, authority, signed, term, layout))
    /\ position' = IF last'.err = "Ok" THEN t ELSE position
    /\ expiry' = IF last'.err = "Ok" THEN bank'.data[t].expiry_date ELSE expiry
    /\ creator' = IF last'.err = "Ok" THEN authority ELSE creator
    /\ UNCHANGED <<clock, wall, deposited, redeemed, claimed, separate>>

\* the data of InitializeTokenizerAndMints: each field carries the address
\* of its name
InitTokenizerAndMintsInstruction(t, term) ==
    [tag |-> "InitializeTokenizerAndMints",
     underlying_vault |-> get_associated_token_address(t, UNDERLYING_MINT),
     underlying_mint |-> UNDERLYING_MINT,
     principal_token_mint |-> get_principal_mint_address(t, UNDERLYING_MINT),
     yield_token_mint |-> get_yield_mint_address(t, UNDERLYING_MINT),
     expiry |-> term, fixed_apy |-> 0]

\* the account list in the order process_initialize_mints reads it
InitializeMintsAccounts(t, authority, signed, principal_token_mint, yield_token_mint) ==
    <<Acc(t, FALSE), Acc(authority, signed), Acc(UNDERLYING_MINT, FALSE),
      Acc(principal_token_mint, FALSE), Acc(yield_token_mint, FALSE),
      TOKEN_PROGRAM_META>>

InitializeMintsCall(t, authority, signed, term) ==
    process(bank, Now, PROGRAM_ID,
            Signed(init_mints(t, authority,
                              get_principal_mint_address(t, UNDERLYING_MINT),
                              get_yield_mint_address(t, UNDERLYING_MINT)), 2, signed),
            [tag |-> "InitializeMints", underlying_mint |-> UNDERLYING_MINT,
             expiry |-> term])

\* the tokenizer address process_initialize_mints accepts for the term now:
\* derived with the key of the token program it is given
MintsTarget(term) ==
    get_tokenizer_address(SPL_TOKEN_ID, UNDERLYING_MINT, to_expiry_date(term, wall))

\* InitializeMints with the six accounts in the order the handler reads
\* them, for the addresses the handler derives
InitializeMintsReadCall(authority, signed, term) ==
    process(bank, Now, PROGRAM_ID,
            InitializeMintsAccounts(MintsTarget(term), authority, signed,
                get_principal_mint_address(SPL_TOKEN_ID, MintsTarget(term)),
                get_yield_mint_address(SPL_TOKEN_ID, MintsTarget(term))),
            [tag |-> "InitializeMints", underlying_mint |-> UNDERLYING_MINT,
             expiry |-> term])

InitializeTokenizerAndMintsCall(t, authority, signed, term) ==
    process(bank, Now, PROGRAM_ID,
            Signed(init_tokenizer_and_mints(t, authority,
                       get_associated_token_address(t, UNDERLYING_MINT),
                       UNDERLYING_MINT,
                       get_principal_mint_address(t, UNDERLYING_MINT),
                       get_yield_mint_address(t, UNDERLYING_MINT)), 2, signed),
            InitTokenizerAndMintsInstruction(t, term))

\* InitializeMints as the builder sends it (built) or with the account list
\* the handler reads
InitializeMints(t, authority, signed, term, built) ==
    /\ Committed("InitializeMints",
                 IF built
                 THEN InitializeMintsCall(t, authority, signed, term)
                 ELSE InitializeMintsReadCall(authority, signed, term))
    /\ UNCHANGED <<clock, wall, position, expiry, creator, deposited, redeemed, claimed,
                   separate>>

InitializeTokenizerAndMints(t, authority, signed, term) ==
    /\ Committed("InitializeTokenizerAndMints",
                 InitializeTokenizerAndMintsCall(t, authority, signed, term))
    /\ position' = IF last'.err = "Ok" THEN t ELSE position
    /\ expiry' = IF last'.err = "Ok" THEN bank'.data[t].expiry_date ELSE expiry
    /\ creator' = IF last'.err = "Ok" THEN authority ELSE creator
    /\ UNCHANGED <<clock, wall, deposited, redeemed, claimed, separate>>

\* Each instruction as a client sends it: the account list of its builder
\* with the addresses recorded in the position, the signer flag of the
\* user's account as the transaction carries it, and the result of process
\* on the current accounts at the current block time.
DepositUnderlyingCall(user, signed, amount) ==
    process(bank, Now, PROGRAM_ID,
            Signed(deposit_underlying(position, Vault, user,
                                      UserUnderlyingAccount(user)), 3, signed),
            [tag |-> "DepositUnderlying", amount |-> amount])

TokenizePrincipalCall(user, signed, amount) ==
    process(bank, Now, PROGRAM_ID,
            Signed(tokenize_principal(position, State.principal_token_mint, user,
                                      UserPrincipalAccount(user)), 3, signed),
            [tag |-> "TokenizePrincipal", amount |-> amount])

TokenizeYieldCall(user, signed, amount) ==
    process(bank, Now, PROGRAM_ID,
            Signed(tokenize_yield(position, State.yield_token_mint, user,
                                  UserYieldAccount(user)), 3, signed),
            [tag |-> "TokenizeYield", amount |-> amount])

DepositAndTokenizeCall(user, signed, amount) ==
    process(bank, Now, PROGRAM_ID,
            Signed(deposit_and_tokenize(position, Vault, State.principal_token_mint,
                       State.yield_token_mint, user, UserUnderlyingAccount(user),
                       UserPrincipalAccount(user), UserYieldAccount(user)), 5, signed),
            [tag |-> "DepositAndTokenize", amount |-> amount])

RedeemMaturePrincipalAccounts(user, signed) ==
    Signed(redeem_mature_principal(position, Vault, State.underlying_mint,
               State.principal_token_mint, user, UserUnderlyingAccount(user),
               UserPrincipalAccount(user)), 5, signed)

RedeemMaturePrincipalCall(user, signed, amount) ==
    process(bank, Now, PROGRAM_ID, RedeemMaturePrincipalAccounts(user, signed),
            [tag |-> "RedeemMaturePrincipal", principal_amount |-> amount])

\* the account list in the order process_claim_yield reads it
ClaimYieldAccounts(user) ==
    <<Acc(position, FALSE), Acc(Vault, FALSE), Acc(State.underlying_mint, FALSE),
      Acc(State.yield_token_mint, FALSE), Acc(user, TRUE),
      Acc(UserUnderlyingAccount(user), FALSE), Acc(UserYieldAccount(user), FALSE),
      TOKEN_PROGRAM_META, SYSTEM_PROGRAM_META>>

\* built: the account list of the builder claim_yield; otherwise the list
\* in the order the handler reads it
ClaimYieldCall(user, signed, amount, built) ==
    process(bank, Now, PROGRAM_ID,
            IF built
            THEN Signed(claim_yield(position, Vault, State.yield_token_mint, user,
                            UserUnderlyingAccount(user), UserYieldAccount(user)),
                        4, signed)
            ELSE Signed(ClaimYieldAccounts(user), 5, signed),
            [tag |-> "ClaimYield", yield_amount |-> amount])

RedeemPrincipalAndYieldCall(user, signed, amount) ==
    process(bank, Now, PROGRAM_ID,
            Signed(redeem_principal_and_yield(position, Vault, State.underlying_mint,
                       State.principal_token_mint, State.yield_token_mint, user,
                       UserUnderlyingAccount(user), UserPrincipalAccount(user),
                       UserYieldAccount(user)), 6, signed),
            [tag |-> "RedeemPrincipalAndYield", amount |-> amount])

\* the mints and the vault a terminating caller names: those derived from
\* the position when it was initialized
RecordedVault == get_associated_token_address(position, UNDERLYING_MINT)
RecordedPrincipalMint == get_principal_mint_address(position, UNDERLYING_MINT)
RecordedYieldMint == get_yield_mint_address(position, UNDERLYING_MINT)

TerminateCall(authority, signed) ==
    process(bank, Now, PROGRAM_ID,
            Signed(terminate(position, authority, RecordedVault, RecordedPrincipalMint,
                             RecordedYieldMint), 2, signed),
            [tag |-> "Terminate"])

TerminateLysergicTokenizerCall(authority, signed) ==
    process(bank, Now, PROGRAM_ID,
            Signed(terminate_lysergic_tokenizer(position, authority, RecordedVault),
                   2, signed),
            [tag |-> "TerminateLysergicTokenizer"])

TerminateMintsCall(authority, signed) ==
    process(bank, Now, PROGRAM_ID,
            Signed(terminate_mints(position, authority, RecordedPrincipalMint,
                                   RecordedYieldMint), 2, signed),
            [tag |-> "TerminateMints"])

DepositUnderlying(user, signed, amount) ==
    /\ Committed("DepositUnderlying", DepositUnderlyingCall(user, signed, amount))
    /\ deposited' = Counted(deposited, amount)
    /\ Separately
    /\ UNCHANGED <<clock, wall, position, expiry, creator, redeemed, claimed>>

TokenizePrincipal(user, signed, amount) ==
    /\ Supply(bank, State.principal_token_mint) + amount <= MaxSupply
    /\ Committed("TokenizePrincipal", TokenizePrincipalCall(user, signed, amount))
    /\ Separately
    /\ UNCHANGED <<clock, wall, position, expiry, creator, deposited, redeemed, claimed>>

TokenizeYield(user, signed, amount) ==
    /\ Supply(bank, State.yield_token_mint) + amount <= MaxSupply
    /\ Committed("TokenizeYield", TokenizeYieldCall(user, signed, amount))
    /\ Separately
    /\ UNCHANGED <<clock, wall, position, expiry, creator, deposited, redeemed, claimed>>

DepositAndTokenize(user, signed, amount) ==
    /\ Supply(bank, State.principal_token_mint) + amount <= MaxSupply
    /\ Supply(bank, State.yield_token_mint) + amount <= MaxSupply
    /\ Committed("DepositAndTokenize", DepositAndTokenizeCall(user, signed, amount))
    /\ deposited' = Counted(deposited, amount)
    /\ UNCHANGED <<clock, wall, position, expiry, creator, redeemed, claimed, separate>>

RedeemMaturePrincipal(user, signed, amount) ==
    /\ Committed("RedeemMaturePrincipal", RedeemMaturePrincipalCall(user, signed, amount))
    /\ redeemed' = Counted(redeemed, amount)
    /\ Separately
    /\ UNCHANGED <<clock, wall, position, expiry, creator, deposited, claimed>>

ClaimYield(user, signed, amount, built) ==
    /\ Committed("ClaimYield", ClaimYieldCall(user, signed, amount, built))
    /\ claimed' = Counted(claimed, amount)
    /\ Separately
    /\ UNCHANGED <<clock, wall, position, expiry, creator, deposited, redeemed>>

RedeemPrincipalAndYield(user, signed, amount) ==
    /\ Committed("RedeemPrincipalAndYield",
                 RedeemPrincipalAndYieldCall(user, signed, amount))
    /\ redeemed' = Counted(redeemed, amount)
    /\ claimed' = Counted(claimed, amount)
    /\ Separately
    /\ UNCHANGED <<clock, wall, position, expiry, creator, deposited>>

Terminate(authority, signed) ==
    /\ Committed("Terminate", TerminateCall(authority, signed))
    /\ UNCHANGED <<clock, wall, position, expiry, creator, deposited, redeemed, claimed, separate>>

TerminateLysergicTokenizer(authority, signed) ==
    /\ Committed("TerminateLysergicTokenizer",
                 TerminateLysergicTokenizerCall(authority, signed))
    /\ UNCHANGED <<clock, wall, position, expiry, creator, deposited, redeemed, claimed, separate>>

TerminateMints(authority, signed) ==
    /\ Committed("TerminateMints", TerminateMintsCall(authority, signed))
    /\ UNCHANGED <<clock, wall, position, expiry, creator, deposited, redeemed, claimed, separate>>

\* A holder of underlying opens the associated token accounts of the
\* principal and of the yield mint of the position with the
\* associated-token-account program, outside the processor.
OpenTokenAccounts(user) ==
    /\ Owner(bank, position) = PROGRAM_ID
    /\ Committed("OpenTokenAccounts",
                 Rollback(bank,
                   AndThen(create_associated_token_account(bank, user, TRUE,
                                                           UserPrincipalAccount(user)),
                           LAMBDA b1 : create_associated_token_account(b1, user, TRUE,
                                           UserYieldAccount(user)))))
    /\ UNCHANGED <<clock, wall, position, expiry, creator, deposited, redeemed, claimed,
                   separate>>

\* instructions of every shape of the enum: a variant without fields, variants
\* with an amount (one byte and two bytes long), with a key and a term, and
\* with four keys, a term and an amount
Instructions ==
    {[tag |-> t] : t \in {"Terminate", "TerminateMints"}}
      \cup {[tag |-> "DepositUnderlying", amount |-> n] : n \in {0, MaxAmount, 256 + MaxAmount}}
      \cup {[tag |-> "RedeemMaturePrincipal", principal_amount |-> MaxAmount],
            [tag |-> "ClaimYield", yield_amount |-> MaxAmount]}
      \cup {[tag |-> "InitializeMints", underlying_mint |-> UNDERLYING_MINT, expiry |-> e] :
               e \in Terms}
      \cup {[tag |-> "InitializeLysergicTokenizer", underlying_vault |-> USER_B,
             underlying_mint |-> UNDERLYING_MINT, principal_token_mint |-> USER_A,
             yield_token_mint |-> ZERO_KEY, expiry |-> "EighteenMonths",
             fixed_apy |-> MaxAmount]}

\* the byte strings a caller may send: the serialized instructions, each of
\* them with its last byte missing, with one byte more, with a discriminant
\* that names no variant and with the byte of its term naming no term, and
\* the empty string
DataInputs ==
    LET sent == {serialize(i) : i \in Instructions}
    IN  sent
          \cup {SubSeq(d, 1, Len(d) - 1) : d \in sent}
          \cup {d \o <<0>> : d \in sent}
          \cup {[d EXCEPT ![1] = Len(VariantTag)] : d \in sent}
          \cup {[d EXCEPT ![ExpiryOffset(d[1])] = Len(ExpiryVariant)] :
                   d \in {e \in sent : ExpiryOffset(e[1]) # 0}}

\* the data of the calls the model makes: a variant without fields, the same
\* with one byte more, and a discriminant that names no variant
SentData == {<<12>>, <<12, 0>>, <<13>>}

ProgramIds == {PROGRAM_ID, SPL_TOKEN_ID}

\* the account list sent with the data: that of the builder terminate_mints
DataAccounts ==
    Signed(terminate_mints(position, creator, RecordedPrincipalMint,
                           RecordedYieldMint), 2, TRUE)

ProcessInstructionCall(program_id, data) ==
    process_instruction(bank, Now, program_id, DataAccounts, data)

\* a call that reaches no handler: sent to another program id, or with data
\* that does not decode
ProcessRejected(program_id, data) ==
    /\ program_id # PROGRAM_ID \/ ~Decodable(data)
    /\ Committed("process", ProcessInstructionCall(program_id, data))
    /\ UNCHANGED <<clock, wall, position, expiry, creator, deposited, redeemed, claimed,
                   separate>>

\* the block time advances to just before, exactly at or just after the
\* expiry date of the position
Tick ==
    /\ position # ZERO_KEY
    /\ \E t \in {expiry - 1, expiry, expiry + 1} :
          /\ t > clock
          /\ clock' = t
    /\ last' = Call("Tick", "Ok")
    /\ UNCHANGED <<bank, wall, position, expiry, creator, deposited, redeemed, claimed,
                   separate>>

Next ==
    \/ \E a \in Authorities, s \in BOOLEAN, term \in InitTerms, layout \in {"named", "placed"} :
          \E t \in TokenizerAddresses(a, term) :
              InitializeLysergicTokenizer(t, a, s, term, layout)
    \/ \E a \in Authorities, s \in BOOLEAN, term \in InitTerms, built \in BOOLEAN :
          \E t \in TokenizerAddresses(a, term) : InitializeMints(t, a, s, term, built)
    \/ \E a \in Authorities, s \in BOOLEAN, term \in InitTerms :
          \E t \in TokenizerAddresses(a, term) :
              InitializeTokenizerAndMints(t, a, s, term)
    \/ \E u \in Holders : OpenTokenAccounts(u)
    \/ \E u \in Users, s \in BOOLEAN, n \in Amounts : DepositUnderlying(u, s, n)
    \/ \E u \in Users, s \in BOOLEAN, n \in Amounts : TokenizePrincipal(u, s, n)
    \/ \E u \in Users, s \in BOOLEAN, n \in Amounts : TokenizeYield(u, s, n)
    \/ \E u \in Users, s \in BOOLEAN, n \in Amounts : DepositAndTokenize(u, s, n)
    \/ \E u \in Users, s \in BOOLEAN, n \in Amounts : RedeemMaturePrincipal(u, s, n)
    \/ \E u \in Users, s \in BOOLEAN, n \in Amounts, built \in BOOLEAN :
          ClaimYield(u, s, n, built)
    \/ \E u \in Users, s \in BOOLEAN, n \in Amounts : RedeemPrincipalAndYield(u, s, n)
    \/ \E a \in Users, s \in BOOLEAN : Terminate(a, s)
    \/ \E a \in Users, s \in BOOLEAN : TerminateLysergicTokenizer(a, s)
    \/ \E a \in Users, s \in BOOLEAN : TerminateMints(a, s)
    \/ \E program_id \in ProgramIds, data \in SentData :
          ProcessRejected(program_id, data)
    \/ Tick

Spec == Init /\ [][Next]_vars

\* ------------------------------------------------------------------------
\* Properties
\* ------------------------------------------------------------------------
\* the tokenizer account of the position is owned by the program: the
\* position is initialized and not terminated
Initialized == Owner(bank, position) = PROGRAM_ID

\* the errors of the checks a handler makes before it calls another program
ValidationErrors ==
    {"NotEnoughAccountKeys", "ProgramFailedToComplete", "TokenizerNotInitialized",
     "ExpiryDateElapsed", "ExpiryDateNotElapsed", "IncorrectVaultAddress",
     "IncorrectUnderlyingMintAddress", "IncorrectPrincipalMintAddress",
     "IncorrectYieldMintAddress", "InvalidUserAccount", "MissingRequiredSignature",
     "IncorrectProgramId"}

\* no check of the handler rejected the call: the handler reached a call of
\* another program
Passed(r) == r.err \notin ValidationErrors

\* C1: after any sequence of Deposit, TokenizePrincipal, TokenizeYield,
\* DepositAndTokenize, RedeemMaturePrincipal, ClaimYield and
\* RedeemPrincipalAndYield calls, successful or failed, on one position, the
\* balance of the vault is the sum of the successfully deposited amounts
\* minus the sum of the successfully redeemed principal amounts minus the
\* sum of the successfully claimed yield amounts.
C1_Conservation ==
    position # ZERO_KEY =>
        Amount(bank, RecordedVault) = deposited - redeemed - claimed

\* after the expiry date a redemption from a vault that a deposit filled
\* has just failed: the deposit is in the vault
C1_Witness ==
    /\ clock > expiry
    /\ last.op = "RedeemMaturePrincipal"
    /\ last.err \notin {"Ok", "ExpiryDateNotElapsed"}
    /\ deposited > 0
    /\ redeemed = 0
    /\ Amount(bank, RecordedVault) = deposited

\* C2: TokenizePrincipal, TokenizeYield and DepositAndTokenize invoked at a
\* block time greater than or equal to the recorded expiry_date, the block
\* time equal to it included, fail with ExpiryDateElapsed and mint no PT and
\* no YT.  DepositAndTokenize reaches the gate of its tokenize step when its
\* deposit step passes.
C2_TokenizeAtOrAfterExpiry ==
    (Initialized /\ clock >= State.expiry_date) =>
        \A u \in Users, s \in BOOLEAN, n \in Amounts :
            /\ TokenizePrincipalCall(u, s, n).err = "ExpiryDateElapsed"
            /\ TokenizePrincipalCall(u, s, n).bank.supply = bank.supply
            /\ TokenizeYieldCall(u, s, n).err = "ExpiryDateElapsed"
            /\ TokenizeYieldCall(u, s, n).bank.supply = bank.supply
            /\ DepositAndTokenizeCall(u, s, n).bank.supply = bank.supply
            /\ DepositUnderlyingCall(u, s, n).err = "Ok" =>
                   DepositAndTokenizeCall(u, s, n).err = "ExpiryDateElapsed"

\* at the block time equal to the recorded expiry_date a TokenizePrincipal
\* has just passed the gate and reached its mint_to, and so does every
\* tokenize call of a user: none is rejected with ExpiryDateElapsed
C2_Witness ==
    /\ Initialized
    /\ clock = State.expiry_date
    /\ last = Call("TokenizePrincipal", "InvalidSeeds")
    /\ \A u \in Users, n \in Amounts :
           /\ TokenizePrincipalCall(u, TRUE, n).err = "InvalidSeeds"
           /\ TokenizeYieldCall(u, TRUE, n).err = "InvalidSeeds"
           /\ DepositAndTokenizeCall(u, TRUE, n).err # "ExpiryDateElapsed"

\* C3: RedeemMaturePrincipal invoked at a block time strictly less than the
\* recorded expiry_date fails with ExpiryDateNotElapsed, and the vault
\* balance, the user's underlying balance and the PT supply are the same as
\* before the call.
C3_RedeemBeforeExpiry ==
    (Initialized /\ clock < State.expiry_date) =>
        \A u \in Users, s \in BOOLEAN, n \in Amounts :
            LET r == RedeemMaturePrincipalCall(u, s, n)
            IN  /\ r.err = "ExpiryDateNotElapsed"
                /\ Amount(r.bank, Vault) = Amount(bank, Vault)
                /\ Amount(r.bank, UserUnderlyingAccount(u))
                     = Amount(bank, UserUnderlyingAccount(u))
                /\ Supply(r.bank, State.principal_token_mint)
                     = Supply(bank, State.principal_token_mint)

\* a redemption has just been rejected before the expiry date, with
\* underlying in the vault
C3_Witness ==
    /\ Initialized
    /\ clock < State.expiry_date
    /\ last = Call("RedeemMaturePrincipal", "ExpiryDateNotElapsed")
    /\ Amount(bank, Vault) > 0

\* C4: ClaimYield invoked at a block time strictly less than the recorded
\* expiry_date fails with ExpiryDateNotElapsed: no underlying leaves the
\* vault and no YT is burned.
C4_ClaimBeforeExpiry ==
    (Initialized /\ clock < State.expiry_date) =>
        \A u \in Users, s \in BOOLEAN, n \in Amounts, built \in BOOLEAN :
            LET r == ClaimYieldCall(u, s, n, built)
            IN  /\ r.err = "ExpiryDateNotElapsed"
                /\ Amount(r.bank, Vault) = Amount(bank, Vault)
                /\ Supply(r.bank, State.yield_token_mint)
                     = Supply(bank, State.yield_token_mint)

\* before the expiry date a yield claim on a vault that holds a deposit has
\* just passed every check of the handler: it reached the transfer out of
\* the vault, and failed there on the signer seeds
C4_Witness ==
    /\ Initialized
    /\ clock < State.expiry_date
    /\ last = Call("ClaimYield", "InvalidSeeds")
    /\ Amount(bank, Vault) > 0
    /\ \A u \in Users, s \in BOOLEAN, n \in Amounts, built \in BOOLEAN :
           ClaimYieldCall(u, s, n, built).err # "ExpiryDateNotElapsed"

\* the account list of process_redeem_principal for the position, in the
\* order the handler reads it
RedeemPrincipalAccounts(user, signed) == RedeemMaturePrincipalAccounts(user, signed)

\* C5: RedeemPrincipalAndYield invoked at a block time strictly less than
\* the recorded expiry_date is rejected by the expiry gate
\* (ExpiryDateNotElapsed) in both of its sub-operations, the redemption of
\* the principal in the mode of the combined call and the claim of the
\* yield; it does not succeed before the expiry date.
C5_RedeemBothBeforeExpiry ==
    (Initialized /\ clock < State.expiry_date) =>
        \A u \in Users, s \in BOOLEAN, n \in Amounts :
            /\ RedeemPrincipalAndYieldCall(u, s, n).err = "ExpiryDateNotElapsed"
            /\ process_redeem_principal(bank, Now, RedeemPrincipalAccounts(u, s),
                                        "PrincipalYield", n).err
                 = "ExpiryDateNotElapsed"
            /\ process_claim_yield(bank, Signed(ClaimYieldAccounts(u), 5, s), n).err
                 = "ExpiryDateNotElapsed"

\* before the expiry date the combined call has just failed for want of
\* accounts, and the redemption of the principal in the mode of the
\* combined call, given its nine accounts, passes every check of the
\* handler and reaches the transfer out of the vault
C5_Witness ==
    /\ Initialized
    /\ clock < State.expiry_date
    /\ last = Call("RedeemPrincipalAndYield", "NotEnoughAccountKeys")
    /\ Amount(bank, Vault) > 0
    /\ \E u \in Users, n \in Amounts :
          process_redeem_principal(bank, Now, RedeemPrincipalAccounts(u, TRUE),
                                   "PrincipalYield", n).err = "InvalidSeeds"

\* what a terminate call may close or empty: the owners, the lamports and
\* the data of the accounts, and the set of closed accounts
Untouched(r) ==
    /\ r.bank.closed = bank.closed
    /\ r.bank.owner = bank.owner
    /\ r.bank.lamports = bank.lamports
    /\ r.bank.data = bank.data

\* C6: Terminate, TerminateLysergicTokenizer and TerminateMints invoked at a
\* block time strictly less than the recorded expiry_date fail with
\* ExpiryDateNotElapsed and close no account.
C6_TerminateBeforeExpiry ==
    (Initialized /\ clock < State.expiry_date) =>
        \A a \in Users, s \in BOOLEAN :
            /\ TerminateCall(a, s).err = "ExpiryDateNotElapsed"
            /\ Untouched(TerminateCall(a, s))
            /\ TerminateLysergicTokenizerCall(a, s).err = "ExpiryDateNotElapsed"
            /\ Untouched(TerminateLysergicTokenizerCall(a, s))
            /\ TerminateMintsCall(a, s).err = "ExpiryDateNotElapsed"
            /\ Untouched(TerminateMintsCall(a, s))

\* before the expiry date a Terminate has just failed for want of accounts,
\* where TerminateLysergicTokenizer and TerminateMints are rejected by the
\* expiry gate
C6_Witness ==
    /\ Initialized
    /\ clock < State.expiry_date
    /\ last = Call("Terminate", "NotEnoughAccountKeys")
    /\ TerminateLysergicTokenizerCall(creator, TRUE).err = "ExpiryDateNotElapsed"
    /\ TerminateMintsCall(creator, TRUE).err = "ExpiryDateNotElapsed"

\* C7: Deposit succeeds only at a block time strictly less than the recorded
\* expiry_date; a Deposit at or after the expiry date is rejected and
\* transfers nothing into the vault.
C7_DepositAtOrAfterExpiry ==
    (Initialized /\ clock >= State.expiry_date) =>
        \A u \in Users, s \in BOOLEAN, n \in Amounts :
            /\ DepositUnderlyingCall(u, s, n).err # "Ok"
            /\ Amount(DepositUnderlyingCall(u, s, n).bank, Vault) = Amount(bank, Vault)

\* a deposit has just succeeded after the expiry date and the underlying
\* is in the vault
C7_Witness ==
    /\ Initialized
    /\ clock > State.expiry_date
    /\ last = Call("DepositUnderlying", "Ok")
    /\ Amount(bank, Vault) > 0

\* C8: at every block time greater than or equal to the recorded
\* expiry_date, the block time equal to it included, the expiry gate of
\* RedeemMaturePrincipal, TerminateLysergicTokenizer and TerminateMints
\* passes: the call is not rejected with ExpiryDateNotElapsed.
C8_GateOpenAtOrAfterExpiry ==
    (Initialized /\ clock >= State.expiry_date) =>
        /\ \A u \in Users, s \in BOOLEAN, n \in Amounts :
              RedeemMaturePrincipalCall(u, s, n).err # "ExpiryDateNotElapsed"
        /\ \A a \in Users, s \in BOOLEAN :
              /\ TerminateLysergicTokenizerCall(a, s).err # "ExpiryDateNotElapsed"
              /\ TerminateMintsCall(a, s).err # "ExpiryDateNotElapsed"

\* at the block time equal to the recorded expiry_date a TerminateMints has
\* just been rejected with ExpiryDateNotElapsed, and so are a redemption and
\* a TerminateLysergicTokenizer
C8_Witness ==
    /\ Initialized
    /\ clock = State.expiry_date
    /\ last = Call("TerminateMints", "ExpiryDateNotElapsed")
    /\ \A u \in Users, n \in Amounts :
           RedeemMaturePrincipalCall(u, TRUE, n).err = "ExpiryDateNotElapsed"
    /\ \A a \in Users :
           TerminateLysergicTokenizerCall(a, TRUE).err = "ExpiryDateNotElapsed"

\* C9: Terminate, TerminateLysergicTokenizer and TerminateMints invoked with
\* an authority account that is not a signer fail with Unauthorised, and
\* the position record, the vault and both mints are unchanged.
C9_TerminateUnsigned ==
    Initialized =>
        \A a \in Users :
            /\ TerminateCall(a, FALSE).err = "Unauthorised"
            /\ TerminateCall(a, FALSE).bank = bank
            /\ TerminateLysergicTokenizerCall(a, FALSE).err = "Unauthorised"
            /\ TerminateLysergicTokenizerCall(a, FALSE).bank = bank
            /\ TerminateMintsCall(a, FALSE).err = "Unauthorised"
            /\ TerminateMintsCall(a, FALSE).bank = bank

\* after the expiry date a TerminateMints whose authority has not signed
\* has just reached the closing of the mints, as the one whose authority
\* has signed does, and so does a TerminateLysergicTokenizer: the three
\* fail there on the signer seeds, and none for the missing signature
C9_Witness ==
    /\ Initialized
    /\ clock > State.expiry_date
    /\ last = Call("TerminateMints", "InvalidSeeds")
    /\ TerminateMintsCall(creator, FALSE).err = "InvalidSeeds"
    /\ TerminateMintsCall(creator, TRUE).err = "InvalidSeeds"
    /\ TerminateLysergicTokenizerCall(creator, FALSE).err = "InvalidSeeds"

C12_MintParity ==
    (Initialized /\ clock < State.expiry_date /\ ~separate) =>
        /\ Supply(bank, State.principal_token_mint) = Supply(bank, State.yield_token_mint)
        /\ Supply(bank, State.yield_token_mint) = Amount(bank, Vault)

\* RedeemPrincipalAndYield of a user on the accounts b at the time now
RedeemPrincipalAndYieldOn(b, now, user, amount) ==
    process(b, now, PROGRAM_ID,
            redeem_principal_and_yield(position, Vault, State.underlying_mint,
                State.principal_token_mint, State.yield_token_mint, user,
                UserUnderlyingAccount(user), UserPrincipalAccount(user),
                UserYieldAccount(user)),
            [tag |-> "RedeemPrincipalAndYield", amount |-> amount])

\* C13: for every amount that a user holds in underlying, DepositAndTokenize
\* of the amount before the expiry date succeeds, and once the block time
\* is past the expiry date RedeemPrincipalAndYield of the amount by that
\* user succeeds and leaves the vault, the PT supply, the YT supply and the
\* user's underlying balance as they were before the deposit.
C13_DepositThenRedeemBoth ==
    (Initialized /\ clock < State.expiry_date) =>
        \A u \in Holders, n \in Amounts :
            Amount(bank, UserUnderlyingAccount(u)) >= n =>
                LET d == DepositAndTokenizeCall(u, TRUE, n)
                    r == RedeemPrincipalAndYieldOn(d.bank,
                             [Now EXCEPT !.unix_timestamp = State.expiry_date + 1], u, n)
                IN  /\ d.err = "Ok"
                    /\ r.err = "Ok"
                    /\ Amount(r.bank, Vault) = Amount(bank, Vault)
                    /\ Supply(r.bank, State.principal_token_mint)
                         = Supply(bank, State.principal_token_mint)
                    /\ Supply(r.bank, State.yield_token_mint)
                         = Supply(bank, State.yield_token_mint)
                    /\ Amount(r.bank, UserUnderlyingAccount(u))
                         = Amount(bank, UserUnderlyingAccount(u))

\* before the expiry date a DepositAndTokenize of a user who holds the
\* amount in underlying and has opened the token accounts has just failed
\* on the signer seeds of its first mint, and a RedeemPrincipalAndYield
\* past the expiry date fails for want of accounts
C13_Witness ==
    /\ Initialized
    /\ clock < State.expiry_date
    /\ last = Call("DepositAndTokenize", "InvalidSeeds")
    /\ \E u \in Holders, n \in Amounts :
           /\ Amount(bank, UserUnderlyingAccount(u)) >= n
           /\ DepositAndTokenizeCall(u, TRUE, n).err = "InvalidSeeds"
           /\ RedeemPrincipalAndYieldOn(bank,
                  [Now EXCEPT !.unix_timestamp = State.expiry_date + 1], u, n).err
                = "NotEnoughAccountKeys"

\* C14: after the expiry date, on a position whose vault holds underlying,
\* Terminate and its step TerminateLysergicTokenizer, invoked by the signing
\* creator, fail with VaultNotEmpty and leave the position record, the vault
\* and both mints unchanged.
C14_TerminateNonEmptyVault ==
    (Initialized /\ clock > State.expiry_date /\ Amount(bank, Vault) > 0) =>
        /\ TerminateCall(creator, TRUE).err = "VaultNotEmpty"
        /\ TerminateCall(creator, TRUE).bank = bank
        /\ TerminateLysergicTokenizerCall(creator, TRUE).err = "VaultNotEmpty"
        /\ TerminateLysergicTokenizerCall(creator, TRUE).bank = bank

\* after the expiry date, with underlying in the vault, a
\* TerminateLysergicTokenizer has just reached the closing of the vault and
\* failed there on the signer seeds, where Terminate fails for want of
\* accounts: the handler does not look at the balance of the vault
C14_Witness ==
    /\ Initialized
    /\ clock > State.expiry_date
    /\ Amount(bank, Vault) > 0
    /\ last = Call("TerminateLysergicTokenizer", "InvalidSeeds")
    /\ TerminateCall(creator, TRUE).err = "NotEnoughAccountKeys"

\* C15: DepositAndTokenize, RedeemPrincipalAndYield and Terminate are atomic.
\* A call that fails leaves every account as it was before the call; a
\* DepositAndTokenize whose deposit step fails, fails; and a DepositAndTokenize
\* that succeeds has moved the amount into the vault and minted it both as PT
\* and as YT, never a deposit without both mints or one mint without the other.
C15_CompositeAtomic ==
    position # ZERO_KEY =>
        /\ \A u \in Users, s \in BOOLEAN, n \in Amounts :
              LET r == DepositAndTokenizeCall(u, s, n)
              IN  /\ r.err # "Ok" => r.bank = bank
                  /\ DepositUnderlyingCall(u, s, n).err # "Ok" => r.err # "Ok"
                  /\ r.err = "Ok" =>
                        /\ Amount(r.bank, Vault) = Amount(bank, Vault) + n
                        /\ Supply(r.bank, State.principal_token_mint)
                             = Supply(bank, State.principal_token_mint) + n
                        /\ Supply(r.bank, State.yield_token_mint)
                             = Supply(bank, State.yield_token_mint) + n
        /\ \A u \in Users, s \in BOOLEAN, n \in Amounts :
              RedeemPrincipalAndYieldCall(u, s, n).err # "Ok" =>
                  RedeemPrincipalAndYieldCall(u, s, n).bank = bank
        /\ \A a \in Users, s \in BOOLEAN :
              TerminateCall(a, s).err # "Ok" => TerminateCall(a, s).bank = bank

\* after the expiry date a DepositAndTokenize has just failed in its
\* tokenize step, at the expiry gate, where its deposit step alone succeeds:
\* the deposit was undone
C15_Witness ==
    /\ Initialized
    /\ last = Call("DepositAndTokenize", "ExpiryDateElapsed")
    /\ \E u \in Users, n \in Amounts :
          /\ DepositUnderlyingCall(u, TRUE, n).err = "Ok"
          /\ DepositAndTokenizeCall(u, TRUE, n).err = "ExpiryDateElapsed"
          /\ DepositAndTokenizeCall(u, TRUE, n).bank = bank

\* C16: the position address, the PT mint address and the YT mint address
\* that the processor checks against are those the client-side derivation
\* computes for the same underlying mint and expiry date: seeds
\* ("tokenizer", underlying_mint, le64(expiry_date)), ("principal", position),
\* ("yield", position), in that order, under this program's id.
C16_DerivationsAgree ==
    Initialized =>
        /\ position = client_get_tokenizer_address(State.underlying_mint, State.expiry_date)
        /\ State.principal_token_mint = client_get_principal_mint_address(position)
        /\ State.yield_token_mint = client_get_yield_mint_address(position)

\* a position has just been initialized at the address the processor
\* derives under the key of the authority
C16_Witness ==
    /\ Initialized
    /\ last = Call("InitializeLysergicTokenizer", "Ok")
    /\ position = get_tokenizer_address(creator, State.underlying_mint, State.expiry_date)

\* C17 (as stated): InitializeLysergicTokenizer invoked on a position
\* account that this program already owns fails with
\* TokenizerAlreadyInitialized and leaves the stored record unchanged, for
\* every choice of the other arguments.
C17_ReinitializeAlreadyInitialized ==
    Initialized =>
        \A a \in Users, s \in BOOLEAN, term \in Terms, layout \in {"named", "placed"} :
            LET r == InitializeLysergicTokenizerCall(position, a, s, term, layout)
            IN  /\ r.err = "TokenizerAlreadyInitialized"
                /\ r.bank.data = bank.data

\* C17 (amended): InitializeLysergicTokenizer invoked on a position account
\* that this program already owns fails and leaves the accounts unchanged, for
\* every choice of the other arguments: with TokenizerAlreadyInitialized when
\* the arguments pass the checks that precede the ownership check, and with
\* the error of the first of those checks that fails otherwise.
C17_ReinitializeRejected ==
    Initialized =>
        \A a \in Users, s \in BOOLEAN, term \in Terms, layout \in {"named", "placed"} :
            LET r == InitializeLysergicTokenizerCall(position, a, s, term, layout)
            IN  /\ r.err \in {"TokenizerAlreadyInitialized", "IncorrectTokenizerAddress",
                               "MissingRequiredSignature", "IncorrectVaultAddress",
                               "IncorrectUnderlyingMintAddress",
                               "IncorrectPrincipalMintAddress",
                               "IncorrectYieldMintAddress", "IncorrectProgramId"}
                /\ r.bank = bank
                /\ ( /\ position = get_tokenizer_address(a, UNDERLYING_MINT,
                                                          to_expiry_date(term, wall))
                     /\ s
                     /\ layout = "placed" ) => r.err = "TokenizerAlreadyInitialized"

\* a second InitializeLysergicTokenizer on the initialized position has just
\* been rejected by the ownership check
C17_Witness ==
    /\ Initialized
    /\ last = Call("InitializeLysergicTokenizer", "TokenizerAlreadyInitialized")

\* the position was initialized and its account has been handed back to the
\* system program by process_terminate_lysergic_tokenizer; no state reached
\* is such a state, for process_terminate_lysergic_tokenizer never returns Ok
Terminated == position # ZERO_KEY /\ ~Initialized

\* C18: once the position has been terminated, every instruction on its
\* address fails, InitializeLysergicTokenizer with the same underlying mint
\* and term included, so the position does not become active again.
C18_TerminatedNotReused ==
    Terminated =>
        /\ \A a \in Users, s \in BOOLEAN, term \in Terms :
              /\ \A layout \in {"named", "placed"} :
                    InitializeLysergicTokenizerCall(position, a, s, term, layout).err # "Ok"
              /\ InitializeMintsCall(position, a, s, term).err # "Ok"
              /\ InitializeTokenizerAndMintsCall(position, a, s, term).err # "Ok"
        /\ \A u \in Users, s \in BOOLEAN, n \in Amounts :
              /\ DepositUnderlyingCall(u, s, n).err # "Ok"
              /\ TokenizePrincipalCall(u, s, n).err # "Ok"
              /\ TokenizeYieldCall(u, s, n).err # "Ok"
              /\ DepositAndTokenizeCall(u, s, n).err # "Ok"
              /\ RedeemMaturePrincipalCall(u, s, n).err # "Ok"
              /\ \A built \in BOOLEAN : ClaimYieldCall(u, s, n, built).err # "Ok"
              /\ RedeemPrincipalAndYieldCall(u, s, n).err # "Ok"
        /\ \A a \in Users, s \in BOOLEAN :
              /\ TerminateCall(a, s).err # "Ok"
              /\ TerminateLysergicTokenizerCall(a, s).err # "Ok"
              /\ TerminateMintsCall(a, s).err # "Ok"

\* C19: after a successful InitializeLysergicTokenizer the stored record has
\* each address field equal to the field of the same name of the instruction
\* data, and the vault, PT mint and YT mint it stores are the addresses
\* derived from the position address.
C19_RecordMatchesInstruction ==
    \A a \in Users, s \in BOOLEAN, term \in Terms, layout \in {"named", "placed"} :
        LET t == Accepted(a, term)
            r == InitializeLysergicTokenizerCall(t, a, s, term, layout)
            i == InitInstruction(t, term, layout)
        IN  r.err = "Ok" =>
                /\ r.bank.data[t].underlying_vault = i.underlying_vault
                /\ r.bank.data[t].underlying_mint = i.underlying_mint
                /\ r.bank.data[t].principal_token_mint = i.principal_token_mint
                /\ r.bank.data[t].yield_token_mint = i.yield_token_mint
                /\ r.bank.data[t].underlying_vault
                     = get_associated_token_address(t, UNDERLYING_MINT)
                /\ r.bank.data[t].principal_token_mint
                     = get_principal_mint_address(t, UNDERLYING_MINT)
                /\ r.bank.data[t].yield_token_mint
                     = get_yield_mint_address(t, UNDERLYING_MINT)

\* a position has just been initialized, and the record stores the derived
\* addresses of the vault and of the two mints
C19_Witness ==
    /\ last = Call("InitializeLysergicTokenizer", "Ok")
    /\ State.underlying_vault = RecordedVault
    /\ State.principal_token_mint = RecordedPrincipalMint
    /\ State.yield_token_mint = RecordedYieldMint

\* C20: InitializeTokenizerAndMints with the account list of its builder,
\* for a position that is not initialized and with the derived addresses,
\* succeeds: the position record is written and both mints are initialized
\* with the position as their authority.
C20_InitializeBoth ==
    position = ZERO_KEY =>
        \A a \in Authorities, term \in Terms :
            LET t == Accepted(a, term)
                r == InitializeTokenizerAndMintsCall(t, a, TRUE, term)
            IN  /\ r.err = "Ok"
                /\ Owner(r.bank, t) = PROGRAM_ID
                /\ t \in DOMAIN r.bank.data
                /\ Get(r.bank.mint_authority,
                       get_principal_mint_address(t, UNDERLYING_MINT), ZERO_KEY) = t
                /\ Get(r.bank.mint_authority,
                       get_yield_mint_address(t, UNDERLYING_MINT), ZERO_KEY) = t

\* before any position exists an InitializeTokenizerAndMints has just
\* failed for want of accounts
C20_Witness ==
    /\ position = ZERO_KEY
    /\ last = Call("InitializeTokenizerAndMints", "NotEnoughAccountKeys")

(***************************************************************************)
(* C21..C30                                                                *)
(***************************************************************************)

InitializeMintsWith(accounts, term) ==
    process(bank, Now, PROGRAM_ID, accounts,
            [tag |-> "InitializeMints", underlying_mint |-> UNDERLYING_MINT,
             expiry |-> term])

\* the mint addresses a caller of InitializeMints may supply
MintCandidates ==
    {State.principal_token_mint, State.yield_token_mint, UNDERLYING_MINT,
     get_principal_mint_address(PROGRAM_ID, position),
     get_yield_mint_address(PROGRAM_ID, position)}

MintsUninitialized ==
    /\ State.principal_token_mint \notin DOMAIN bank.mint_authority
    /\ State.yield_token_mint \notin DOMAIN bank.mint_authority

\* C21: on an initialized position whose mints are not yet initialized,
\* InitializeMints signed by the authority, for the recorded term and with the
\* recorded principal and yield mints, initializes both mints with the position
\* as their mint authority; with any other pair of mints it is rejected and no
\* mint is initialized.
C21_InitializeMintsOwnMints ==
    (Initialized /\ MintsUninitialized) =>
        \A term \in InitTerms :
            to_expiry_date(term, wall) = State.expiry_date =>
                \A p \in MintCandidates, y \in MintCandidates :
                    LET r == InitializeMintsWith(
                                 InitializeMintsAccounts(position, creator, TRUE, p, y),
                                 term)
                    IN  IF p = State.principal_token_mint /\ y = State.yield_token_mint
                        THEN /\ r.err = "Ok"
                             /\ p \in DOMAIN r.bank.mint_authority
                             /\ y \in DOMAIN r.bank.mint_authority
                             /\ r.bank.mint_authority[p] = position
                             /\ r.bank.mint_authority[y] = position
                        ELSE r.err # "Ok" /\ r.bank = bank

C21_Witness ==
    /\ Initialized /\ MintsUninitialized
    /\ last.op = "InitializeMints"
    /\ \E term \in InitTerms :
           /\ to_expiry_date(term, wall) = State.expiry_date
           /\ InitializeMintsWith(
                  InitializeMintsAccounts(position, creator, TRUE,
                      State.principal_token_mint, State.yield_token_mint),
                  term).err = "IncorrectTokenizerAddress"

\* C22: the redemption of RedeemMaturePrincipal(amount) moves the amount out
\* of the vault into the user's associated account for the underlying mint:
\* the transfer the handler sends to the token program, once executed,
\* lowers the vault balance by the amount and raises the balance of that
\* account by the amount.
C22_RedeemMatureEffect ==
    Initialized =>
        \A u \in Holders, n \in Amounts :
            LET r == redeem_principal_transfer(bank, RedeemMaturePrincipalAccounts(u, TRUE),
                                               n)
            IN  r.err = "Ok" =>
                    /\ Amount(r.bank, Vault) = Amount(bank, Vault) - n
                    /\ Amount(r.bank, UserUnderlyingAccount(u))
                         = Amount(bank, UserUnderlyingAccount(u)) + n

\* after the expiry date a RedeemMaturePrincipal on a funded vault has just
\* passed the checks of the handler and failed on the signer seeds of its
\* transfer, and that transfer credits the user's principal-token account
C22_Witness ==
    /\ Initialized
    /\ clock > expiry
    /\ last = Call("RedeemMaturePrincipal", "InvalidSeeds")
    /\ \E u \in Holders, n \in Amounts :
           LET r == redeem_principal_transfer(bank,
                        RedeemMaturePrincipalAccounts(u, TRUE), n)
           IN  /\ r.err = "Ok"
               /\ Amount(r.bank, UserPrincipalAccount(u))
                    = Amount(bank, UserPrincipalAccount(u)) + n
               /\ Amount(r.bank, UserUnderlyingAccount(u))
                    = Amount(bank, UserUnderlyingAccount(u))

\* C23: the claim of ClaimYield(amount) moves the amount out of the vault
\* into the user's associated account for the underlying mint: the transfer
\* the handler sends to the token program, once executed, lowers the vault
\* balance by the amount and raises the balance of that account by the
\* amount.
C23_ClaimYieldEffect ==
    Initialized =>
        \A u \in Holders, n \in Amounts :
            LET r == claim_yield_transfer(bank, ClaimYieldAccounts(u), n)
            IN  r.err = "Ok" =>
                    /\ Amount(r.bank, Vault) = Amount(bank, Vault) - n
                    /\ Amount(r.bank, UserUnderlyingAccount(u))
                         = Amount(bank, UserUnderlyingAccount(u)) + n

\* a ClaimYield on a funded vault has just passed the checks of the handler
\* and failed on the signer seeds of its transfer, and that transfer
\* credits the user's yield-token account
C23_Witness ==
    /\ Initialized
    /\ last = Call("ClaimYield", "InvalidSeeds")
    /\ \E u \in Holders, n \in Amounts :
           LET r == claim_yield_transfer(bank, ClaimYieldAccounts(u), n)
           IN  /\ r.err = "Ok"
               /\ Amount(r.bank, UserYieldAccount(u))
                    = Amount(bank, UserYieldAccount(u)) + n
               /\ Amount(r.bank, UserUnderlyingAccount(u))
                    = Amount(bank, UserUnderlyingAccount(u))

Layouts == {"named", "placed"}

\* C24: a call whose account list comes from the builder of its operation,
\* with the addresses of the position, is never rejected for missing accounts
\* (NotEnoughAccountKeys): neither the three initializing operations nor, on
\* an initialized position, the ten others.
C24_BuilderListsSuffice ==
    /\ \A a \in Authorities, term \in InitTerms :
           /\ \A layout \in Layouts :
                  InitializeLysergicTokenizerCall(Accepted(a, term), a, TRUE, term,
                                                  layout).err
                    # "NotEnoughAccountKeys"
           /\ InitializeMintsCall(Accepted(a, term), a, TRUE, term).err
                # "NotEnoughAccountKeys"
           /\ InitializeTokenizerAndMintsCall(Accepted(a, term), a, TRUE, term).err
                # "NotEnoughAccountKeys"
    /\ Initialized =>
           /\ \A u \in Holders, n \in Amounts :
                  /\ DepositUnderlyingCall(u, TRUE, n).err # "NotEnoughAccountKeys"
                  /\ TokenizePrincipalCall(u, TRUE, n).err # "NotEnoughAccountKeys"
                  /\ TokenizeYieldCall(u, TRUE, n).err # "NotEnoughAccountKeys"
                  /\ DepositAndTokenizeCall(u, TRUE, n).err # "NotEnoughAccountKeys"
                  /\ RedeemMaturePrincipalCall(u, TRUE, n).err # "NotEnoughAccountKeys"
                  /\ ClaimYieldCall(u, TRUE, n, TRUE).err # "NotEnoughAccountKeys"
                  /\ RedeemPrincipalAndYieldCall(u, TRUE, n).err
                       # "NotEnoughAccountKeys"
           /\ \A a \in Authorities :
                  /\ TerminateCall(a, TRUE).err # "NotEnoughAccountKeys"
                  /\ TerminateLysergicTokenizerCall(a, TRUE).err
                       # "NotEnoughAccountKeys"
                  /\ TerminateMintsCall(a, TRUE).err # "NotEnoughAccountKeys"

\* a ClaimYield with the account list of its builder has just failed for
\* want of accounts, where the call with the accounts in the order the
\* handler reads them passes the checks of the handler
C24_Witness ==
    /\ Initialized
    /\ last = Call("ClaimYield", "NotEnoughAccountKeys")
    /\ \E u \in Holders, n \in Amounts :
           /\ ClaimYieldCall(u, TRUE, n, TRUE).err = "NotEnoughAccountKeys"
           /\ ClaimYieldCall(u, TRUE, n, FALSE).err = "InvalidSeeds"

\* ------------------------------------------------------------------------
\* The functions of Expiry on their own: to_expiry_date of both lib.rs and
\* from_i64, applied to inputs drawn from bounded sets.  In this
\* specification clock is the timestamp given, expiry the date computed, and
\* last the call with its input and its result.
\* ------------------------------------------------------------------------
\* timestamps within MaxSkew seconds of a base
MaxSkew == 2
\* the integers given to from_i64: -MaxMonths .. MaxMonths
MaxMonths == 25

Timestamps ==
    {base + d : base \in {0, StartTime, SECONDS_PER_DAY}
                          \cup {0 - to_seconds(t) : t \in Terms},
                d \in (0 - MaxSkew)..MaxSkew}

\* the wall clocks Utc::now() reads: no time before the epoch
WallTimestamps == {t \in Timestamps : t >= 0}

Applied(op, input, result) == [op |-> op, input |-> input, result |-> result]

ExpiryInit ==
    /\ bank = InitBank
    /\ clock \in Timestamps
    /\ wall \in WallTimestamps
    /\ position = ZERO_KEY
    /\ expiry = 0
    /\ creator = ZERO_KEY
    /\ deposited = 0
    /\ redeemed = 0
    /\ claimed = 0
    /\ separate = FALSE
    /\ last = Applied("None", 0, 0)

ToExpiryDate(term) ==
    /\ expiry' = to_expiry_date(term, wall)
    /\ last' = Applied("to_expiry_date", term, expiry')
    /\ UNCHANGED <<bank, clock, wall, position, creator, deposited, redeemed, claimed,
                   separate>>

ToExpiryDateTs(term) ==
    /\ expiry' = to_expiry_date_ts(term, clock)
    /\ last' = Applied("to_expiry_date_ts", term, expiry')
    /\ UNCHANGED <<bank, clock, wall, position, creator, deposited, redeemed, claimed,
                   separate>>

FromI64(n) ==
    /\ last' = Applied("from_i64", n, from_i64(n))
    /\ UNCHANGED <<bank, clock, wall, position, expiry, creator, deposited, redeemed,
                   claimed, separate>>

ExpiryNext ==
    \/ \E term \in Terms : ToExpiryDate(term)
    \/ \E term \in Terms : ToExpiryDateTs(term)
    \/ \E n \in (0 - MaxMonths)..MaxMonths : FromI64(n)

ExpirySpec == ExpiryInit /\ [][ExpiryNext]_vars

\* C25: for every term and every timestamp now, to_expiry_date returns
\* floor((now + to_seconds(term)) / 86400) * 86400, with to_seconds 31536000,
\* 47304000 and 63072000; the result is a multiple of 86400, at most
\* now + to_seconds(term) and greater than now + to_seconds(term) - 86400.
C25_ExpiryDateFloor ==
    last.op \in {"to_expiry_date", "to_expiry_date_ts"} =>
        LET seconds == CASE last.input = "TwelveMonths" -> 31536000
                         [] last.input = "EighteenMonths" -> 47304000
                         [] last.input = "TwentyFourMonths" -> 63072000
            now == IF last.op = "to_expiry_date" THEN wall ELSE clock
            target == now + seconds
        IN  /\ to_seconds(last.input) = seconds
            /\ \E days \in {target \div 86400} :
                   /\ days * 86400 <= target
                   /\ target < (days + 1) * 86400
                   /\ last.result = days * 86400
            /\ last.result % 86400 = 0
            /\ last.result <= target
            /\ last.result > target - 86400

C25_Witness ==
    /\ last.op = "to_expiry_date_ts"
    /\ clock + to_seconds(last.input) < 0
    /\ last.result > clock + to_seconds(last.input)
    /\ last.result = expiry

\* C26: from_i64 returns TwelveMonths for 12, EighteenMonths for 18,
\* TwentyFourMonths for 24, and an error for every other integer.
C26_FromI64 ==
    last.op = "from_i64" =>
        /\ (last.input = 12) <=> (last.result = "TwelveMonths")
        /\ (last.input = 18) <=> (last.result = "EighteenMonths")
        /\ (last.input = 24) <=> (last.result = "TwentyFourMonths")
        /\ (last.input \notin {12, 18, 24}) <=> (last.result = "InvalidArgument")

C26_Witness ==
    /\ last.op = "from_i64"
    /\ last.input \notin {12, 18, 24}
    /\ last.input > 12 /\ last.input < 24
    /\ last.result = "InvalidArgument"

\* C27: a call whose program id is not this program's is rejected with
\* IncorrectProgramId, and a call whose data is not the serialization of an
\* instruction (a byte missing, a byte too many, an unknown discriminant, an
\* unknown term, no byte at all) is rejected with InvalidInstructionData; no
\* account is modified.  The serialization of an instruction decodes to that
\* instruction and gets the result of the handler of its variant.
C27_RejectedBeforeDispatch ==
    /\ \A data \in DataInputs :
          /\ \A program_id \in ProgramIds \ {PROGRAM_ID} :
                 ProcessInstructionCall(program_id, data)
                   = Err("IncorrectProgramId", bank)
          /\ data \notin {serialize(i) : i \in Instructions} =>
                 ProcessInstructionCall(PROGRAM_ID, data)
                   = Err("InvalidInstructionData", bank)
    /\ \A i \in Instructions :
          /\ try_from_slice(serialize(i)) = i
          /\ ProcessInstructionCall(PROGRAM_ID, serialize(i))
               = process(bank, Now, PROGRAM_ID, DataAccounts, i)

\* after the expiry date the data of TerminateMints with one byte more has
\* just been rejected as undecodable, where the data without that byte
\* reaches the handler
C27_Witness ==
    /\ Initialized
    /\ clock > expiry
    /\ last = Call("process", "InvalidInstructionData")
    /\ serialize([tag |-> "TerminateMints"]) \o <<0>> \in DataInputs
    /\ ProcessInstructionCall(PROGRAM_ID, serialize([tag |-> "TerminateMints"]) \o <<0>>)
         = Err("InvalidInstructionData", bank)
    /\ ProcessInstructionCall(PROGRAM_ID, serialize([tag |-> "TerminateMints"])).err
         = "InvalidSeeds"

\* the operations that write or clear the record of a position
RecordWriters ==
    {"InitializeLysergicTokenizer", "InitializeTokenizerAndMints",
     "TerminateLysergicTokenizer", "Terminate"}

\* C28: the record of the position, and the data of every account, changes
\* only in a step of InitializeLysergicTokenizer (alone or in the composite)
\* or of TerminateLysergicTokenizer (alone or in the composite): every call of
\* DepositUnderlying, TokenizePrincipal, TokenizeYield, DepositAndTokenize,
\* RedeemMaturePrincipal, ClaimYield, RedeemPrincipalAndYield, InitializeMints
\* and TerminateMints, successful or not, leaves it as it was.
C28_RecordFrame ==
    [][bank'.data # bank.data => last'.op \in RecordWriters]_vars

\* after a deposit that succeeded, a TerminateMints past the expiry date
\* has just failed, and the record is the one written at the start
C28_Witness ==
    /\ Initialized
    /\ clock > expiry
    /\ last = Call("TerminateMints", "InvalidSeeds")
    /\ bank.data[position] = State
    /\ State.expiry_date = expiry
    /\ deposited > 0

\* the result of a call without the signature of its signer, against the
\* result of the same call with it: rejected, the accounts left as they were,
\* and rejected for the missing signature when the signed call passes the
\* checks of the handler (it succeeds, or fails only in a call made with
\* the signer seeds)
SignatureRequired(signed, unsigned) ==
    /\ unsigned.err # "Ok"
    /\ unsigned.bank = bank
    /\ signed.err \in {"Ok", "InvalidSeeds"} => unsigned.err = "MissingRequiredSignature"

\* C29: every operation is rejected, with the accounts unchanged, when its
\* signer (the authority for the initializing and terminating operations, the
\* user for the others) has not signed, and with MissingRequiredSignature,
\* before any call of the token program, when the signed call passes the
\* checks of the handler.
C29_SignerRequired ==
    /\ \A a \in Authorities, term \in InitTerms :
           /\ \A layout \in Layouts :
                  SignatureRequired(
                      InitializeLysergicTokenizerCall(Accepted(a, term), a, TRUE, term,
                                                      layout),
                      InitializeLysergicTokenizerCall(Accepted(a, term), a, FALSE, term,
                                                      layout))
           /\ SignatureRequired(InitializeMintsCall(Accepted(a, term), a, TRUE, term),
                                InitializeMintsCall(Accepted(a, term), a, FALSE, term))
           /\ SignatureRequired(
                  InitializeTokenizerAndMintsCall(Accepted(a, term), a, TRUE, term),
                  InitializeTokenizerAndMintsCall(Accepted(a, term), a, FALSE, term))
    /\ Initialized =>
           /\ \A u \in Holders, n \in Amounts :
                  /\ SignatureRequired(DepositUnderlyingCall(u, TRUE, n),
                                       DepositUnderlyingCall(u, FALSE, n))
                  /\ SignatureRequired(TokenizePrincipalCall(u, TRUE, n),
                                       TokenizePrincipalCall(u, FALSE, n))
                  /\ SignatureRequired(TokenizeYieldCall(u, TRUE, n),
                                       TokenizeYieldCall(u, FALSE, n))
                  /\ SignatureRequired(DepositAndTokenizeCall(u, TRUE, n),
                                       DepositAndTokenizeCall(u, FALSE, n))
                  /\ SignatureRequired(RedeemMaturePrincipalCall(u, TRUE, n),
                                       RedeemMaturePrincipalCall(u, FALSE, n))
                  /\ SignatureRequired(ClaimYieldCall(u, TRUE, n, FALSE),
                                       ClaimYieldCall(u, FALSE, n, FALSE))
                  /\ SignatureRequired(RedeemPrincipalAndYieldCall(u, TRUE, n),
                                       RedeemPrincipalAndYieldCall(u, FALSE, n))
           /\ \A a \in Authorities :
                  /\ SignatureRequired(TerminateCall(a, TRUE), TerminateCall(a, FALSE))
                  /\ SignatureRequired(TerminateLysergicTokenizerCall(a, TRUE),
                                       TerminateLysergicTokenizerCall(a, FALSE))
                  /\ SignatureRequired(TerminateMintsCall(a, TRUE),
                                       TerminateMintsCall(a, FALSE))

\* a TokenizePrincipal of a user who has opened the token accounts has just
\* reached the mint, and the call that the user has not signed reaches it
\* as well: it fails there on the signer seeds, as the signed call does
C29_Witness ==
    /\ Initialized
    /\ last = Call("TokenizePrincipal", "InvalidSeeds")
    /\ \E u \in Holders, n \in Amounts :
           /\ Owner(bank, UserPrincipalAccount(u)) = SPL_TOKEN_ID
           /\ TokenizePrincipalCall(u, TRUE, n).err = "InvalidSeeds"
           /\ TokenizePrincipalCall(u, FALSE, n).err = "InvalidSeeds"

\* the calls of the operations on a position with the accounts a caller
\* supplies: the tokenizer account t, the vault and the mints
DepositUnderlyingWith(t, user, amount, vault) ==
    process(bank, Now, PROGRAM_ID,
            deposit_underlying(t, vault, user, UserUnderlyingAccount(user)),
            [tag |-> "DepositUnderlying", amount |-> amount])

TokenizePrincipalWith(t, user, amount, principal_token_mint) ==
    process(bank, Now, PROGRAM_ID,
            tokenize_principal(t, principal_token_mint, user, UserPrincipalAccount(user)),
            [tag |-> "TokenizePrincipal", amount |-> amount])

TokenizeYieldWith(t, user, amount, yield_token_mint) ==
    process(bank, Now, PROGRAM_ID,
            tokenize_yield(t, yield_token_mint, user, UserYieldAccount(user)),
            [tag |-> "TokenizeYield", amount |-> amount])

RedeemMaturePrincipalWith(t, user, amount, vault, underlying_mint, principal_token_mint) ==
    process(bank, Now, PROGRAM_ID,
            redeem_mature_principal(t, vault, underlying_mint, principal_token_mint,
                user, UserUnderlyingAccount(user), UserPrincipalAccount(user)),
            [tag |-> "RedeemMaturePrincipal", principal_amount |-> amount])

\* in the order process_claim_yield reads the accounts
ClaimYieldWith(t, user, amount, vault, underlying_mint, yield_token_mint) ==
    process(bank, Now, PROGRAM_ID,
            <<Acc(t, FALSE), Acc(vault, FALSE), Acc(underlying_mint, FALSE),
              Acc(yield_token_mint, FALSE), Acc(user, TRUE),
              Acc(UserUnderlyingAccount(user), FALSE),
              Acc(UserYieldAccount(user), FALSE), TOKEN_PROGRAM_META,
              SYSTEM_PROGRAM_META>>,
            [tag |-> "ClaimYield", yield_amount |-> amount])

TerminateLysergicTokenizerWith(t, authority, vault) ==
    process(bank, Now, PROGRAM_ID, terminate_lysergic_tokenizer(t, authority, vault),
            [tag |-> "TerminateLysergicTokenizer"])

TerminateMintsWith(t, authority, principal_token_mint, yield_token_mint) ==
    process(bank, Now, PROGRAM_ID,
            terminate_mints(t, authority, principal_token_mint, yield_token_mint),
            [tag |-> "TerminateMints"])

\* the accounts a caller may supply in the place of the vault or of a mint
SuppliedAccounts ==
    {State.underlying_vault, State.underlying_mint, State.principal_token_mint,
     State.yield_token_mint} \cup {UserUnderlyingAccount(u) : u \in Users}

\* accounts that are not a position of this program
ForeignPositions == {USER_B, UserUnderlyingAccount(USER_A)}

\* rejected by a check of the handler, before any call of the token program
Rejected(r) == r.err \in ValidationErrors /\ r.bank = bank

\* C30: on an initialized position, DepositUnderlying, TokenizePrincipal,
\* TokenizeYield, RedeemMaturePrincipal, ClaimYield, TerminateLysergicTokenizer
\* and TerminateMints are rejected by a check of the handler, before any call
\* of the token program and with the accounts unchanged, when the vault,
\* the underlying mint, the principal mint or the yield mint supplied is not
\* the recorded one, and when the tokenizer account supplied is not owned by
\* this program.
C30_RecordedAccountsOnly ==
    Initialized =>
        LET v == State.underlying_vault
            um == State.underlying_mint
            pm == State.principal_token_mint
            ym == State.yield_token_mint
        IN
        /\ \A x \in SuppliedAccounts, u \in Holders, n \in Amounts :
               /\ x # v =>
                      /\ Rejected(DepositUnderlyingWith(position, u, n, x))
                      /\ Rejected(RedeemMaturePrincipalWith(position, u, n, x, um, pm))
                      /\ Rejected(ClaimYieldWith(position, u, n, x, um, ym))
                      /\ Rejected(TerminateLysergicTokenizerWith(position, creator, x))
               /\ x # um =>
                      /\ Rejected(RedeemMaturePrincipalWith(position, u, n, v, x, pm))
                      /\ Rejected(ClaimYieldWith(position, u, n, v, x, ym))
               /\ x # pm =>
                      /\ Rejected(TokenizePrincipalWith(position, u, n, x))
                      /\ Rejected(RedeemMaturePrincipalWith(position, u, n, v, um, x))
                      /\ Rejected(TerminateMintsWith(position, creator, x, ym))
               /\ x # ym =>
                      /\ Rejected(TokenizeYieldWith(position, u, n, x))
                      /\ Rejected(ClaimYieldWith(position, u, n, v, um, x))
                      /\ Rejected(TerminateMintsWith(position, creator, pm, x))
        /\ \A t \in ForeignPositions, u \in Holders, n \in Amounts :
               /\ Rejected(DepositUnderlyingWith(t, u, n, v))
               /\ Rejected(TokenizePrincipalWith(t, u, n, pm))
               /\ Rejected(TokenizeYieldWith(t, u, n, ym))
               /\ Rejected(RedeemMaturePrincipalWith(t, u, n, v, um, pm))
               /\ Rejected(ClaimYieldWith(t, u, n, v, um, ym))
               /\ Rejected(TerminateLysergicTokenizerWith(t, creator, v))
               /\ Rejected(TerminateMintsWith(t, creator, pm, ym))

\* after the expiry date a TerminateMints has just reached the closing of
\* the mints, and the one given, in the place of the principal mint, an
\* account that is not a mint of the position reaches it as well
C30_Witness ==
    /\ Initialized
    /\ clock > expiry
    /\ last = Call("TerminateMints", "InvalidSeeds")
    /\ \E x \in SuppliedAccounts :
           /\ x # State.principal_token_mint
           /\ x # State.yield_token_mint
           /\ TerminateMintsWith(position, creator, x, State.yield_token_mint).err
                = "InvalidSeeds"

(***************************************************************************)
(* C31..C40                                                                *)
(***************************************************************************)

\* C31: the seed list passed to invoke_signed by the calls that mint, pay
\* out of the vault or close an account of the position derives, under this
\* program's id, the address of the position, so that the call is signed
\* for the position and for no other address.
C31_SeedsDerivePosition ==
    Initialized =>
        LET derived == create_program_address(SignerSeeds, PROGRAM_ID)
        IN  /\ derived.err = "Ok"
            /\ derived.key = position

\* a mint of principal tokens that passed every check of the handler has
\* failed on the seeds, which derive no address
C31_Witness ==
    /\ Initialized
    /\ last = Call("TokenizePrincipal", "InvalidSeeds")
    /\ create_program_address(SignerSeeds, PROGRAM_ID).err = "InvalidSeeds"
    /\ find_program_address(<<SEED_LYSERGIC_TOKENIZER>>, PROGRAM_ID) # position

NoTokenAccounts(user) ==
    /\ Owner(bank, UserPrincipalAccount(user)) = SYSTEM_PROGRAM_ID
    /\ Owner(bank, UserYieldAccount(user)) = SYSTEM_PROGRAM_ID

\* C32: for a user without token accounts of the position's mints, before
\* the expiry date, TokenizePrincipal and TokenizeYield signed by the user
\* create the account and mint the amount into it, and so does
\* DepositAndTokenize when the user holds the amount in underlying.
C32_LazyTokenAccount ==
    (Initialized /\ clock < State.expiry_date) =>
        \A u \in Holders, n \in Amounts :
            NoTokenAccounts(u) =>
                /\ LET r == TokenizePrincipalCall(u, TRUE, n)
                   IN  /\ r.err = "Ok"
                       /\ Owner(r.bank, UserPrincipalAccount(u)) = SPL_TOKEN_ID
                       /\ Amount(r.bank, UserPrincipalAccount(u)) = n
                /\ LET r == TokenizeYieldCall(u, TRUE, n)
                   IN  /\ r.err = "Ok"
                       /\ Owner(r.bank, UserYieldAccount(u)) = SPL_TOKEN_ID
                       /\ Amount(r.bank, UserYieldAccount(u)) = n
                /\ DepositUnderlyingCall(u, TRUE, n).err = "Ok" =>
                       LET r == DepositAndTokenizeCall(u, TRUE, n)
                       IN  /\ r.err = "Ok"
                           /\ Amount(r.bank, UserPrincipalAccount(u)) = n
                           /\ Amount(r.bank, UserYieldAccount(u)) = n

\* before the expiry date a TokenizePrincipal of a user without token
\* accounts has just created the account and failed on the signer seeds of
\* the mint, so that the account does not exist, and a DepositAndTokenize
\* of the user fails for want of the account of the system program
C32_Witness ==
    /\ Initialized
    /\ clock < State.expiry_date
    /\ last = Call("TokenizePrincipal", "InvalidSeeds")
    /\ \E u \in Holders, n \in Amounts :
           /\ NoTokenAccounts(u)
           /\ TokenizePrincipalCall(u, TRUE, n).err = "InvalidSeeds"
           /\ DepositUnderlyingCall(u, TRUE, n).err = "Ok"
           /\ DepositAndTokenizeCall(u, TRUE, n).err = "NotEnoughAccountKeys"

TerminateMintsOn(b, authority) ==
    process(b, Now, PROGRAM_ID,
            terminate_mints(position, authority, RecordedPrincipalMint,
                            RecordedYieldMint),
            [tag |-> "TerminateMints"])

TerminateLysergicTokenizerOn(b, authority) ==
    process(b, Now, PROGRAM_ID,
            terminate_lysergic_tokenizer(position, authority, RecordedVault),
            [tag |-> "TerminateLysergicTokenizer"])

\* C33: after the expiry date and with the vault empty, the combined
\* Terminate signed by the authority with the builder's accounts succeeds: it
\* runs TerminateMints and then TerminateLysergicTokenizer, each on the
\* accounts it reads, and leaves both mints closed, the vault closed and the
\* position account handed back to the system program.
C33_TerminateRunsBoth ==
    (Initialized /\ clock > expiry /\ Amount(bank, Vault) = 0) =>
        LET m == TerminateMintsOn(bank, creator)
            t == TerminateLysergicTokenizerOn(m.bank, creator)
            r == TerminateCall(creator, TRUE)
        IN  /\ r.err = "Ok"
            /\ m.err = "Ok" /\ t.err = "Ok" /\ r.bank = t.bank
            /\ {RecordedPrincipalMint, RecordedYieldMint, RecordedVault}
                 \subseteq r.bank.closed
            /\ Owner(r.bank, position) = SYSTEM_PROGRAM_ID
            /\ DataLen(r.bank, position) = 0

\* after the expiry date, with the vault empty, a Terminate signed by the
\* creator has just failed for want of accounts, where TerminateMints and
\* TerminateLysergicTokenizer, each on the accounts it reads, fail on the
\* signer seeds
C33_Witness ==
    /\ Initialized
    /\ clock > expiry
    /\ Amount(bank, Vault) = 0
    /\ last = Call("Terminate", "NotEnoughAccountKeys")
    /\ TerminateMintsOn(bank, creator).err = "InvalidSeeds"
    /\ TerminateLysergicTokenizerOn(bank, creator).err = "InvalidSeeds"

\* C34: TerminateLysergicTokenizer forwards all the lamports of the position
\* account to the authority, and TerminateMints likewise forwards the
\* lamports that remain rather than a constant 0: the transfer each of them
\* sends to the system program, once executed, leaves the position account
\* with 0 lamports, all of them credited to the authority.
C34_TerminateForwardsLamports ==
    Initialized =>
        \A a \in Users :
            /\ LET r == terminate_lysergic_tokenizer_transfer(bank,
                             terminate_lysergic_tokenizer(position, a, Vault))
               IN  /\ r.err = "Ok"
                   /\ Lamports(r.bank, position) = 0
                   /\ Lamports(r.bank, a) = Lamports(bank, a) + Lamports(bank, position)
            /\ LET r == terminate_mints_transfer(bank,
                             terminate_mints(position, a, RecordedPrincipalMint,
                                             RecordedYieldMint))
               IN  /\ r.err = "Ok"
                   /\ Lamports(r.bank, position) = 0
                   /\ Lamports(r.bank, a) = Lamports(bank, a) + Lamports(bank, position)

\* after the expiry date a TerminateMints has just reached the closing of
\* the mints and failed on the signer seeds, and the transfer it sends
\* after the closing leaves the lamports of the position account where
\* they are
C34_Witness ==
    /\ Initialized
    /\ clock > expiry
    /\ last = Call("TerminateMints", "InvalidSeeds")
    /\ Lamports(bank, position) > 0
    /\ \E a \in Users :
           LET r == terminate_mints_transfer(bank,
                        terminate_mints(position, a, RecordedPrincipalMint,
                                        RecordedYieldMint))
           IN  /\ r.err = "Ok"
               /\ Lamports(r.bank, position) = Lamports(bank, position)
               /\ Lamports(r.bank, a) = Lamports(bank, a)

RedeemMaturePrincipalOn(b, user, amount) ==
    process(b, Now, PROGRAM_ID, RedeemMaturePrincipalAccounts(user, TRUE),
            [tag |-> "RedeemMaturePrincipal", principal_amount |-> amount])

\* with the accounts in the order process_claim_yield reads them
ClaimYieldOn(b, user, amount) ==
    process(b, Now, PROGRAM_ID, ClaimYieldAccounts(user),
            [tag |-> "ClaimYield", yield_amount |-> amount])

\* the balances and supplies of a position and a user in the accounts b
Holdings(b, user) ==
    [vault |-> Amount(b, Vault),
     underlying |-> Amount(b, UserUnderlyingAccount(user)),
     principal |-> Amount(b, UserPrincipalAccount(user)),
     yield |-> Amount(b, UserYieldAccount(user)),
     principal_supply |-> Supply(b, State.principal_token_mint),
     yield_supply |-> Supply(b, State.yield_token_mint)]

\* the amounts of a redemption: any u64 within the bound, zero included
RedeemAmounts == 0..MaxAmount

\* C35: for every amount, RedeemPrincipalAndYield(amount) succeeds exactly
\* when RedeemMaturePrincipal(amount) followed by ClaimYield(amount) by the
\* same user both succeed, and then leaves the same vault balance, user
\* balances and principal and yield supplies as the two calls in sequence;
\* every check of the sub-operations runs in the combined call, the expiry
\* gate included: when a check of the handler rejects the redemption, it
\* rejects the combined call.
C35_RedeemBothIsSequence ==
    Initialized =>
        \A u \in Holders, n \in RedeemAmounts :
            LET r1 == RedeemMaturePrincipalOn(bank, u, n)
                r2 == ClaimYieldOn(r1.bank, u, n)
                c == RedeemPrincipalAndYieldCall(u, TRUE, n)
            IN  /\ (c.err = "Ok") <=> (r1.err = "Ok" /\ r2.err = "Ok")
                /\ c.err = "Ok" => Holdings(c.bank, u) = Holdings(r2.bank, u)
                /\ r1.err \in ValidationErrors => c.err = r1.err

\* before the expiry date a RedeemPrincipalAndYield has just failed for
\* want of accounts, where the expiry gate rejects the RedeemMaturePrincipal
\* of the same user and amount
C35_Witness ==
    /\ Initialized
    /\ clock < expiry
    /\ last = Call("RedeemPrincipalAndYield", "NotEnoughAccountKeys")
    /\ \E u \in Holders, n \in RedeemAmounts :
           /\ RedeemMaturePrincipalOn(bank, u, n).err = "ExpiryDateNotElapsed"
           /\ RedeemPrincipalAndYieldCall(u, TRUE, n).err = "NotEnoughAccountKeys"

\* InitializeMints for the term given, signed by the authority, with the
\* recorded mints and the accounts in the order the handler reads them
InitializeRecordedMints(term) ==
    InitializeMintsWith(
        InitializeMintsAccounts(position, creator, TRUE, State.principal_token_mint,
                                State.yield_token_mint),
        term)

\* C36 as stated: InitializeMints on an initialized position whose recorded
\* expiry_date differs from the date recomputed from the term supplied and the
\* current time fails with InvalidExpiryDate and initializes no mint.
C36_ExpiryMismatchInvalidExpiryDate ==
    Initialized =>
        \A term \in Terms :
            to_expiry_date(term, wall) # State.expiry_date =>
                InitializeRecordedMints(term) = Err("InvalidExpiryDate", bank)

\* C36 amended: InitializeMints on an initialized position whose recorded
\* expiry_date differs from the date recomputed from the term supplied and the
\* current time fails with IncorrectTokenizerAddress, the address test with the
\* recomputed date coming before the comparison with the record, and
\* initializes no mint.
C36_ExpiryMismatchRejected ==
    Initialized =>
        \A term \in Terms :
            to_expiry_date(term, wall) # State.expiry_date =>
                InitializeRecordedMints(term) = Err("IncorrectTokenizerAddress", bank)

C36_Witness ==
    /\ Initialized
    /\ last.op = "InitializeMints"
    /\ \E term \in Terms :
           /\ to_expiry_date(term, wall) # State.expiry_date
           /\ InitializeRecordedMints(term).err = "IncorrectTokenizerAddress"
           /\ InitializeRecordedMints(term).bank.mint_authority = bank.mint_authority

C38_PayoutBurns ==
    [][Initialized =>
         LET paid == Amount(bank, Vault) - Amount(bank', Vault)
             principal_burned == Supply(bank, State.principal_token_mint)
                                   - Supply(bank', State.principal_token_mint)
             yield_burned == Supply(bank, State.yield_token_mint)
                               - Supply(bank', State.yield_token_mint)
         IN  paid > 0 =>
                 \/ /\ last'.op = "RedeemMaturePrincipal"
                    /\ principal_burned = paid /\ yield_burned = 0
                 \/ /\ last'.op = "ClaimYield"
                    /\ yield_burned = paid /\ principal_burned = 0
                 \/ /\ last'.op = "RedeemPrincipalAndYield"
                    /\ principal_burned + yield_burned = paid
                    /\ principal_burned >= 0 /\ yield_burned >= 0]_vars

\* C39: each value-moving operation changes only its own quantities: a
\* Deposit leaves the principal and yield supplies, a TokenizePrincipal leaves
\* the vault balance and the yield supply, a TokenizeYield leaves the vault
\* balance and the principal supply, a RedeemMaturePrincipal leaves the yield
\* supply, and a ClaimYield leaves the principal supply as they were.
C39_OperationFrame ==
    [][Initialized =>
         LET vault_kept == Amount(bank', Vault) = Amount(bank, Vault)
             principal_kept == Supply(bank', State.principal_token_mint)
                                 = Supply(bank, State.principal_token_mint)
             yield_kept == Supply(bank', State.yield_token_mint)
                             = Supply(bank, State.yield_token_mint)
         IN  /\ last'.op = "DepositUnderlying" => principal_kept /\ yield_kept
             /\ last'.op = "TokenizePrincipal" => vault_kept /\ yield_kept
             /\ last'.op = "TokenizeYield" => vault_kept /\ principal_kept
             /\ last'.op = "RedeemMaturePrincipal" => yield_kept
             /\ last'.op = "ClaimYield" => principal_kept]_vars

\* a deposit has just moved underlying into the vault, and no principal or
\* yield token is in circulation
C39_Witness ==
    /\ Initialized
    /\ last = Call("DepositUnderlying", "Ok")
    /\ Amount(bank, Vault) = deposited
    /\ deposited > 0
    /\ Supply(bank, State.principal_token_mint) = 0
    /\ Supply(bank, State.yield_token_mint) = 0

\* ------------------------------------------------------------------------
\* Serialized size of the tokenizer state
\* ------------------------------------------------------------------------
U8_BYTES == 1
I64_BYTES == 8

\* the fields of LysergicTokenizerState in the order of the struct
StateFields ==
    <<"bump", "authority", "principal_token_mint", "yield_token_mint",
      "underlying_mint", "underlying_vault", "expiry_date", "fixed_apy">>

\* the width borsh gives a field of the struct
FieldBytes(field) ==
    CASE field = "bump" -> U8_BYTES
      [] field = "expiry_date" -> I64_BYTES
      [] field = "fixed_apy" -> U64_BYTES
      [] OTHER -> PUBKEY_BYTES

RECURSIVE SerializedBytes(_)
SerializedBytes(fields) ==
    IF fields = <<>> THEN 0
    ELSE FieldBytes(Head(fields)) + SerializedBytes(Tail(fields))

\* the number of bytes BorshSerialize writes for a state
serialized_size(state) ==
    SerializedBytes(SelectSeq(StateFields, LAMBDA field : field \in DOMAIN state))

\* the size the comment beside LYSERGIC_TOKENIZER_STATE_SIZE states
STATED_STATE_SIZE == 184

\* the slice the handlers hand to try_from_slice holds exactly one state
SliceDecodes(b, k) ==
    /\ DataLen(b, k) >= LYSERGIC_TOKENIZER_STATE_SIZE
    /\ DOMAIN b.data[k] = {StateFields[i] : i \in DOMAIN StateFields}
    /\ serialized_size(b.data[k]) = LYSERGIC_TOKENIZER_STATE_SIZE

\* C40: the declared state size equals the serialized size of the state, the
\* sum of its field widths, and equals the size stated for the layout with
\* bump and authority, 184 bytes, so that the slice of the account data of
\* that size holds exactly one decodable state.
C40_StateSize ==
    \A k \in DOMAIN bank.data :
        /\ LYSERGIC_TOKENIZER_STATE_SIZE = serialized_size(bank.data[k])
        /\ LYSERGIC_TOKENIZER_STATE_SIZE = STATED_STATE_SIZE
        /\ SliceDecodes(bank, k)

C40_Witness ==
    /\ Initialized
    /\ position \in DOMAIN bank.data
    /\ SliceDecodes(bank, position)
    /\ serialized_size(State) # STATED_STATE_SIZE

====
